---- MODULE Spec2Model ----
(***************************************************************************)
(* Model of the PADRE integration harness                                  *)
(* (padre/integration/features/steps/shared.py) and of the perf-test       *)
(* connection (test/perf/steptest.py).                                     *)
(*                                                                         *)
(* Texts are sequences of one-character strings; positions are 0-based as  *)
(* in the Python source, so the character at position i of s is s[i+1].    *)
(***************************************************************************)
EXTENDS Integers, Sequences, FiniteSets, TLC

VARIABLES
    \* ---- one TCP stream from the peer to a StreamReader ----
    peer_vals,      \* history: the JSON values the peer wrote, in order
    peer_gap,       \* history: the whitespace the peer wrote around the values
    peer_text,      \* history: the text the peer wrote (values and whitespace)
    net,            \* characters written by the peer that have not arrived yet
    rbuf,           \* the StreamReader's buffer: arrived, not yet read
    out,            \* concatenation of the result lists of the reads so far
    rd_err,         \* "none", or the exception a read raised
    rd_msg,         \* None, or what the message of that exception names
    nsegs,          \* number of arrivals so far
    nreads,         \* number of completed reads so far
    \* ---- the Padre object of a scenario (context.padre) ----
    pd_pid,             \* Padre._pid / Padre._proc: None or the process spawned
    request_counter,    \* Padre._request_counter
    last_request_number,\* Padre._last_request_number
    children,           \* Padre._children
    \* ---- the behave context and the step being run ----
    connections,        \* context.connections: None while the attribute is
                        \* not set, else the list of open connections
    n_conns,            \* connections opened so far (the next one's identity)
    pc,                 \* "idle" between steps, "wait_banner", "wait_exit"
                        \* inside run_until_complete, "failed" after a step raised
    step_error,         \* the exception that ended the scenario, or "none"
    waited,             \* seconds spent in the current run_until_complete
    run_future,         \* the future of do_run_padre: "none", "pending",
                        \* "cancelled", "done"
    last_query,         \* what the last read of last_request_number returned
    \* ---- the operating system and the sockets ----
    procs,              \* the processes spawned, by pid
    os_desc,            \* live descendants: pairs <<server pid, descendant>>
    wire,               \* the requests written to sockets, in order
    \* ---- history ----
    issued,             \* the values request_counter returned, in order
    lifecycle,          \* the supervisor state of spec section 4.5
    \* ---- the perf test's PadreConnection ----
    perf_counter,       \* PadreConnection.counter
    perf_wire,          \* what PadreConnection wrote to its socket, in order
    perf_ret,           \* the values _send returned, in order
    \* ---- one call of read_results and the event loop under it ----
    now,                \* loop.time(), in seconds since the scenario began
    rr_pc,              \* "idle" before the call, "loop" at the while test,
                        \* "reading" inside run_until_complete, "check" at
                        \* the time check, "returned", "raised"
    expected_results,   \* the argument of read_results
    rr_results,         \* the local list results of read_results
    rr_timeout,         \* the local timeout of read_results
    futs,               \* the futures read_results created: "pending",
                        \* "cancelled" or "done"; the last one is the one
                        \* the variable future names
    timers,             \* the handles of loop.call_at waiting to run
    wf_deadline,        \* when the wait_for of the current read gives up
    sock,               \* the StreamReader's buffer of the connection read
    peer_sent,          \* messages the peer has written so far
    outcome,            \* how read_results ended and what the caller got
    decoded,            \* history: every message a read has decoded
    \* ---- the step "padre is not running" ----
    polls,              \* polls of returncode done by padre_not_running
    not_running,        \* "none", or "passed" once padre_not_running passed
    \* ---- the server's stdin and the callers of Padre.get_children ----
    stdin_cmds,         \* commands written to the server's stdin so far
    tk_pc,              \* per caller of get_children: "idle", "read",
                        \* "observed", "done"
    tk_read,            \* per caller: the value of self._children it read
    tk_obs,             \* per caller: the descendants psutil gave it
    \* ---- one call of a function that matches messages ----
    mt_in,              \* the function called and its arguments
    mt_out,             \* "none" before the call, "pass" when it returned,
                        \* or the exception it raised
    \* ---- the sockets of the connections, by the connection's identity ----
    inbox,              \* messages the server wrote and no read has taken yet
    handed,             \* messages the reads of the connection have returned
    \* ---- the server's stdout and the task of print_stuff ----
    pipe,               \* lines written after the banner and not read yet
    drain,              \* "none", "running" once a_print_stuff is scheduled,
                        \* "ended" after its loop broke
    empties,            \* the local i of a_print_stuff
    \* ---- the run_padre fixture ----
    cleanups,           \* run_padre generators suspended at their yield
    sigterm,            \* the processes process.terminate() was called on
    \* ---- pythonx/buffers.py: one VIM buffer and a BufferList ----
    buf_lines,          \* the lines of vim.buffers[buffer_number]
    modifiable,         \* the buffer's option 'modifiable'
    buf_call,           \* the last write called on the Buffer, or "none"
    buf_raised,         \* "none", or the exception that call raised
    bl_buffers,         \* BufferList._buffers, each object by name and number
    bl_got,             \* what the last get_buffer returned
    \* ---- integration/RunPadre.py: expect_from_padre ----
    ex_buffer,          \* RunPadre._buffer
    ex_socket,          \* what the server sent and recv has not returned yet
    ex_sent,            \* characters the server has sent so far
    ex_out,             \* how the last expect_from_padre ended
    \* ---- padre/ptywrapper.py ----
    pw_pc,              \* where the wrapper is in spawn
    PID,                \* the global PID: -1, or the pid pty.fork returned
    TTY_MODE,           \* the global TTY_MODE: None, or the saved mode
    pw_fds,             \* the list fds of _copy
    pw_term,            \* the mode of the terminal on standard input
    pw_child,           \* "none", "running", "exited" (not reaped), "reaped"
    pw_stdin,           \* "open", or "eof" once standard input has ended
    pw_relayed,         \* blocks of data _copy has relayed
    pw_kills,           \* the calls of os.kill that sent a signal
    pw_exit             \* None, or the exit status of the wrapper

vars_decode ==
    <<peer_vals, peer_gap, peer_text, net, rbuf, out, rd_err, rd_msg, nsegs,
      nreads>>

vars_harness ==
    <<pd_pid, request_counter, last_request_number, children, connections,
      n_conns, pc, step_error, waited, run_future, last_query, procs, os_desc,
      wire, issued, lifecycle>>

vars_perf == <<perf_counter, perf_wire, perf_ret>>

vars_read ==
    <<now, rr_pc, expected_results, rr_results, rr_timeout, futs, timers,
      wf_deadline, sock, peer_sent, outcome, decoded>>

vars_poll == <<polls, not_running>>

vars_buf == <<buf_lines, modifiable, buf_call, buf_raised, bl_buffers, bl_got>>

vars_expect == <<ex_buffer, ex_socket, ex_sent, ex_out>>

vars_pty ==
    <<pw_pc, PID, TTY_MODE, pw_fds, pw_term, pw_child, pw_stdin, pw_relayed,
      pw_kills, pw_exit>>

vars_tools == <<vars_buf, vars_expect, vars_pty>>

vars_track == <<stdin_cmds, tk_pc, tk_read, tk_obs>>

vars_match == <<mt_in, mt_out>>

vars_conn == <<inbox, handed>>

vars_drain == <<pipe, drain, empties>>

vars_fixture == <<cleanups, sigterm>>

vars_scenario == <<vars_conn, vars_drain, vars_fixture>>

vars == <<vars_decode, vars_harness, vars_perf, vars_read, vars_poll, vars_tools, vars_scenario, vars_track,
          vars_match>>

(***************************************************************************)
(* Bounds of the model                                                     *)
(***************************************************************************)
MaxVals == 2        \* values the peer writes on one stream
MaxSegs == 2        \* arrivals (network segments) of one stream
MaxProcs == 2       \* processes a scenario spawns
MaxConns == 2       \* connections a scenario opens
MaxRequests == 2    \* requests a scenario (or a perf connection) sends
TICK == 5           \* seconds between two observations of the clock
MaxChildren == 1    \* descendants the servers spawn
MaxExpected == 2    \* largest expected_results passed to read_results
MaxMsgs == 2        \* messages the peer writes during one read_results
MaxTime == 35       \* the clock is observed up to this many seconds
MaxResults == 2     \* messages in a list handed to a matching function
MaxRows == 2        \* rows of the table of a step
PipeCap == 2        \* lines the stdout pipe holds before a write blocks

(***************************************************************************)
(* Program constants                                                       *)
(***************************************************************************)
TIMEOUT == 15
CHUNK == 4096

\* Python's None, and a value that is not None
None == << >>
Some(x) == <<x>>

(***************************************************************************)
(* json.decoder.WHITESPACE and json._default_decoder.raw_decode, on texts  *)
(* over the characters the inputs below are made of: brackets, braces,     *)
(* comma, colon, double quote, digits, minus, letters and whitespace.      *)
(* (No backslash escapes, fractions or exponents occur in the inputs.)     *)
(***************************************************************************)
WhitespaceChars == {" ", "\t", "\n", "\r"}
Digits == {"0", "1", "2", "3", "4", "5", "6", "7", "8", "9"}

At(s, i) == IF i >= 0 /\ i < Len(s) THEN s[i + 1] ELSE "EOF"

\* s[from:to] of Python
Slice(s, from, to) == SubSeq(s, from + 1, to)

RECURSIVE WHITESPACE_end(_, _)
\* json.decoder.WHITESPACE.match(s, i).end(): the regex [ \t\n\r]*
WHITESPACE_end(s, i) ==
    IF At(s, i) \in WhitespaceChars THEN WHITESPACE_end(s, i + 1) ELSE i

Ok(to) == [ok |-> TRUE, to |-> to]
Err == [ok |-> FALSE, to |-> 0]

RECURSIVE scanstring(_, _)
\* i is the position after the opening quote; strict mode rejects control
\* characters inside a string
scanstring(s, i) ==
    LET c == At(s, i) IN
    IF c = "EOF" \/ c \in {"\t", "\n", "\r"} THEN Err
    ELSE IF c = "\"" THEN Ok(i + 1)
    ELSE scanstring(s, i + 1)

RECURSIVE DigitsEnd(_, _)
DigitsEnd(s, i) == IF At(s, i) \in Digits THEN DigitsEnd(s, i + 1) ELSE i

\* NUMBER_RE = (-?(?:0|[1-9]\d*))(\.\d+)?([eE][-+]?\d+)? without the
\* optional fraction and exponent
match_number(s, i) ==
    LET j == IF At(s, i) = "-" THEN i + 1 ELSE i IN
    IF At(s, j) = "0" THEN Ok(j + 1)
    ELSE IF At(s, j) \in Digits THEN Ok(DigitsEnd(s, j))
    ELSE Err

RECURSIVE scan_once(_, _)
RECURSIVE JSONArrayItems(_, _)
RECURSIVE JSONObjectPairs(_, _)

\* the loop of JSONArray: e is the position of the next value
JSONArrayItems(s, e) ==
    LET v == scan_once(s, e) IN
    IF ~v.ok THEN Err
    ELSE LET e2 == WHITESPACE_end(s, v.to)
             c == At(s, e2)
         IN IF c = "]" THEN Ok(e2 + 1)
            ELSE IF c # "," THEN Err
            ELSE JSONArrayItems(s, WHITESPACE_end(s, e2 + 1))

\* e is the position after the opening bracket
JSONArray(s, e) ==
    LET e1 == WHITESPACE_end(s, e) IN
    IF At(s, e1) = "]" THEN Ok(e1 + 1) ELSE JSONArrayItems(s, e1)

\* the loop of JSONObject: e is the position of the opening quote of a key
JSONObjectPairs(s, e) ==
    IF At(s, e) # "\"" THEN Err
    ELSE LET k == scanstring(s, e + 1) IN
         IF ~k.ok THEN Err
         ELSE LET e1 == WHITESPACE_end(s, k.to) IN
              IF At(s, e1) # ":" THEN Err
              ELSE LET v == scan_once(s, WHITESPACE_end(s, e1 + 1)) IN
                   IF ~v.ok THEN Err
                   ELSE LET e2 == WHITESPACE_end(s, v.to)
                            c == At(s, e2)
                        IN IF c = "}" THEN Ok(e2 + 1)
                           ELSE IF c # "," THEN Err
                           ELSE JSONObjectPairs(s, WHITESPACE_end(s, e2 + 1))

\* e is the position after the opening brace
JSONObject(s, e) ==
    LET e1 == WHITESPACE_end(s, e) IN
    IF At(s, e1) = "}" THEN Ok(e1 + 1) ELSE JSONObjectPairs(s, e1)

\* s[i:i+len(lit)] == lit
StartsWith(s, i, lit) ==
    /\ i + Len(lit) <= Len(s)
    /\ Slice(s, i, i + Len(lit)) = lit

scan_once(s, idx) ==
    LET c == At(s, idx) IN
    IF c = "\"" THEN scanstring(s, idx + 1)
    ELSE IF c = "{" THEN JSONObject(s, idx + 1)
    ELSE IF c = "[" THEN JSONArray(s, idx + 1)
    ELSE IF c = "n" /\ StartsWith(s, idx, <<"n", "u", "l", "l">>) THEN Ok(idx + 4)
    ELSE IF c = "t" /\ StartsWith(s, idx, <<"t", "r", "u", "e">>) THEN Ok(idx + 4)
    ELSE IF c = "f" /\ StartsWith(s, idx, <<"f", "a", "l", "s", "e">>) THEN Ok(idx + 5)
    ELSE match_number(s, idx)

\* json._default_decoder.raw_decode(line, idx=idx): the end position of the
\* value that starts at idx, or ValueError
raw_decode(line, idx) == scan_once(line, idx)

(***************************************************************************)
(* do_read_from_padre, lines 156-172: the decode of what one read returned *)
(***************************************************************************)
NextIdxNoSkip(line, to) == to

\* line 165: the position the loop continues from after a value ending at to
NextIdx(line, to) == WHITESPACE_end(line, to)

RECURSIVE DecodeLoop(_, _, _)
\* lines 162-167
DecodeLoop(line, idx, results) ==
    IF idx = Len(line) THEN [ok |-> TRUE, results |-> results, idx |-> idx]
    ELSE LET r == raw_decode(line, idx) IN
         IF ~r.ok THEN [ok |-> FALSE, results |-> results, idx |-> idx]
         ELSE DecodeLoop(line, NextIdx(line, r.to),
                         Append(results, Slice(line, idx, r.to)))

\* lines 156-172: the result list handed to future.set_result, or ValueError
DecodeLine(line) == DecodeLoop(line, WHITESPACE_end(line, 0), <<>>)

(***************************************************************************)
(* Inputs: the texts a peer writes                                         *)
(***************************************************************************)
RespOne == <<"[", "1", ",", "{", "}", "]">>
CallF == <<"[", "\"", "c", "a", "l", "l", "\"", ",", "\"", "f", "\"", ",",
           "[", "1", "]", "]">>
RespTwoOK == <<"[", "2", ",", "{", "\"", "s", "t", "a", "t", "u", "s", "\"",
               ":", "\"", "O", "K", "\"", "}", "]">>
StrA == <<"\"", "a", "\"">>
Num12 == <<"1", "2">>
NumNeg3 == <<"-", "3">>

\* the byte stream of the spec's scenario E
ScenarioE == CallF \o <<" ", " ">> \o RespTwoOK

Values == {RespOne, CallF, StrA, Num12, NumNeg3}
Gaps == {<< >>, <<" ">>, <<"\n", " ">>}

RECURSIVE Join(_, _)
\* the values of vs, each followed by the whitespace g
Join(vs, g) ==
    IF vs = << >> THEN << >> ELSE Head(vs) \o g \o Join(Tail(vs), g)

\* value lists of length 1..MaxVals
ValueLists == UNION {[1..n -> Values] : n \in 1..MaxVals}

\* what a peer writes: the values, and the text that carries them with the
\* same whitespace before, between and after them
PeerInputs ==
    {[vals |-> vs, gap |-> g, text |-> g \o Join(vs, g)] :
        vs \in ValueLists, g \in Gaps}
        \cup {[vals |-> <<CallF, RespTwoOK>>, gap |-> <<" ", " ">>,
               text |-> ScenarioE]}

\* texts no continuation turns into a JSON value
BadComma == <<"[", "1", ",", "}">>
BadKey == <<"{", "1", "}">>
BadGap == <<"[", "1", " ", "2", "]">>
Malformed == {<<"}">>, <<"x">>, BadComma, BadKey, BadGap}

\* what a faulty peer writes: valid values, then a malformed one
MalformedInputs ==
    {[vals |-> vs, gap |-> g, text |-> g \o Join(vs, g) \o bad] :
        vs \in ValueLists \cup {<< >>}, g \in Gaps, bad \in Malformed}

(***************************************************************************)
(* The stream: arrival of segments and reads                               *)
(***************************************************************************)
\* the stream when no peer is writing
NoStream ==
    /\ peer_vals = << >>
    /\ peer_gap = << >>
    /\ peer_text = << >>
    /\ net = << >>
    /\ rbuf = << >>
    /\ out = << >>
    /\ rd_err = "none"
    /\ rd_msg = None
    /\ nsegs = 0
    /\ nreads = 0

InitDecode ==
    \E inp \in PeerInputs :
        /\ peer_vals = inp.vals
        /\ peer_gap = inp.gap
        /\ peer_text = inp.text
        /\ net = inp.text
        /\ rbuf = << >>
        /\ out = << >>
        /\ rd_err = "none"
        /\ rd_msg = None
        /\ nsegs = 0
        /\ nreads = 0

\* the next n characters arrive at the socket
Arrive(n) ==
    /\ rd_err = "none"
    /\ nsegs < MaxSegs
    /\ n \in 1..Len(net)
    /\ nsegs + 1 = MaxSegs => n = Len(net)
    /\ rbuf' = rbuf \o SubSeq(net, 1, n)
    /\ net' = SubSeq(net, n + 1, Len(net))
    /\ nsegs' = nsegs + 1
    /\ UNCHANGED <<vars_harness, vars_match, vars_perf, vars_read, vars_poll, vars_tools, vars_scenario, vars_track>>
    /\ UNCHANGED <<peer_vals, peer_gap, peer_text, out, rd_err, rd_msg, nreads>>

\* a message that names the start of the text and the whole text
ValueErrorArgsAtStart(line, idx) == [idx |-> 0, rest |-> line]

\* line 167: the position and the text the message of the ValueError names
ValueErrorArgs(line, idx) == [idx |-> idx, rest |-> Slice(line, idx, Len(line))]

\* a caller that puts what a read returned before what it already has
DeliveredNewestFirst(sofar, results) == results \o sofar

\* line 684: what the caller of the reads has, after one more read returned
Delivered(sofar, results) == sofar \o results

\* reader.read(4096) of line 150: what is buffered, at most 4096 characters
ReadLine(buf) == SubSeq(buf, 1, IF Len(buf) < CHUNK THEN Len(buf) ELSE CHUNK)

\* do_read_from_padre on a stream with buffered data: lines 150-172
ReadOk ==
    /\ rd_err = "none"
    /\ rbuf # << >>
    /\ LET line == ReadLine(rbuf)
           d == DecodeLine(line)
       IN /\ d.ok
          /\ out' = Delivered(out, d.results)
          /\ rbuf' = SubSeq(rbuf, Len(line) + 1, Len(rbuf))
    /\ nreads' = nreads + 1
    /\ UNCHANGED <<vars_harness, vars_match, vars_perf, vars_read, vars_poll, vars_tools, vars_scenario, vars_track>>
    /\ UNCHANGED <<peer_vals, peer_gap, peer_text, net, rd_err, rd_msg, nsegs>>

\* line 167: raw_decode raised; the characters read are gone with the line
ReadValueError ==
    /\ rd_err = "none"
    /\ rbuf # << >>
    /\ LET line == ReadLine(rbuf)
           d == DecodeLine(line)
       IN /\ ~d.ok
          /\ rbuf' = SubSeq(rbuf, Len(line) + 1, Len(rbuf))
          /\ rd_msg' = Some(ValueErrorArgs(line, d.idx))
    /\ rd_err' = "ValueError"
    /\ nreads' = nreads + 1
    /\ UNCHANGED <<vars_harness, vars_match, vars_perf, vars_read, vars_poll, vars_tools, vars_scenario, vars_track>>
    /\ UNCHANGED <<peer_vals, peer_gap, peer_text, net, out, nsegs>>

NextDecode ==
    \/ \E n \in 1..Len(net) : Arrive(n)
    \/ ReadOk
    \/ ReadValueError


(***************************************************************************)
(* Request texts: json.dumps([n, payload], separators=(",", ":")) of       *)
(* padre_request and "[{},{}]".format(counter, msg) of PadreConnection     *)
(***************************************************************************)
DigitChars == <<"0", "1", "2", "3", "4", "5", "6", "7", "8", "9">>

RECURSIVE IntToText(_)
\* str(n) for n >= 0
IntToText(n) ==
    IF n < 10 THEN <<DigitChars[n + 1]>>
    ELSE IntToText(n \div 10) \o <<DigitChars[(n % 10) + 1]>>

RECURSIVE TextToInt(_)
\* int(digits)
TextToInt(ds) ==
    IF ds = << >> THEN 0
    ELSE 10 * TextToInt(SubSeq(ds, 1, Len(ds) - 1))
             + ((CHOOSE d \in 1..10 : DigitChars[d] = ds[Len(ds)]) - 1)

RECURSIVE Compact(_, _, _)
\* json.dumps(json.loads(s), separators=(",", ":")): the whitespace outside
\* strings is dropped
Compact(s, i, in_string) ==
    IF i >= Len(s) THEN << >>
    ELSE LET c == At(s, i) IN
         IF c = "\"" THEN <<c>> \o Compact(s, i + 1, ~in_string)
         ELSE IF ~in_string /\ c \in WhitespaceChars THEN Compact(s, i + 1, in_string)
         ELSE <<c>> \o Compact(s, i + 1, in_string)

\* the request of a feature file step, as its author wrote it
CmdRun == <<"{", "\"", "c", "m", "d", "\"", ":", " ", "\"", "r", "u", "n", "\"", "}">>

\* lines 473-476
RequestText(n, request) ==
    <<"[">> \o IntToText(n) \o <<",">> \o Compact(request, 0, FALSE) \o <<"]">>

\* steptest.py line 143
PerfText(n, msg) == <<"[">> \o IntToText(n) \o <<",">> \o msg \o <<"]">>

\* the request number the peer reads off a request text: json.loads(text)[0]
WireNum(text) == TextToInt(Slice(text, 1, DigitsEnd(text, 1)))

(***************************************************************************)
(* Padre: the request counter                                              *)
(***************************************************************************)
CounterAfterIssueStuck(counter) == counter

\* line 101: self._request_counter += 1
CounterAfterIssue(counter) == counter + 1

LastAfterIssueOffByOne(counter) == counter + 1

\* line 100: self._last_request_number = self._request_counter
LastAfterIssue(counter) == counter

(***************************************************************************)
(* The harness: state after Padre.__init__ (lines 32-41)                   *)
(***************************************************************************)
InitHarness ==
    /\ pd_pid = None
    /\ request_counter = 1
    /\ last_request_number = None
    /\ children = {}
    /\ connections = None
    /\ n_conns = 0
    /\ pc = "idle"
    /\ step_error = "none"
    /\ waited = 0
    /\ run_future = "none"
    /\ last_query = None
    /\ procs = << >>
    /\ os_desc = {}
    /\ wire = << >>
    /\ issued = << >>
    /\ lifecycle = "NotStarted"

\* a process as spawned by create_subprocess_exec
NewProc == [banner |-> "none", alive |-> "alive", sigint |-> FALSE, code |-> 0]

Alive(p) == procs[p].alive = "alive"

\* some live server has printed the banner and listens on the port
Listening == \E p \in 1..Len(procs) : Alive(p) /\ procs[p].banner = "ok"

\* stdout.readline() of line 230: the banner line once printed, "eof" when
\* the process ended without a line, "pending" while neither
BannerLine(p) ==
    IF procs[p].banner # "none" THEN procs[p].banner
    ELSE IF ~Alive(p) THEN "eof"
    ELSE "pending"

\* psutil.Process(pid).children(recursive=True)
Descendants(p) == {d[2] : d \in {e \in os_desc : e[1] = p}}

ChildrenObservedOnly(p) == Descendants(p)

\* lines 130-136: Padre.get_children for a process psutil still finds
ChildrenAfter(p) == children \cup Descendants(p)

BannerMatchesAnyLine(line) == line # "pending"

\* lines 240-241: the line read equals the expected banner of the port
BannerMatches(line) == line = "ok"

\* psutil.Process(pid) raises NoSuchProcess once the process was reaped
PsutilFinds(p) == procs[p].alive # "reaped"

\* run_padre lines 199-228: the subprocess is spawned and the timer that
\* cancels the future is set; run_until_complete waits on readline
RunPadreSpawn ==
    /\ pc = "idle"
    /\ Len(procs) < MaxProcs
    /\ procs' = Append(procs, NewProc)
    /\ pd_pid' = Some(Len(procs) + 1)
    /\ run_future' = "pending"
    /\ waited' = 0
    /\ pc' = "wait_banner"
    /\ lifecycle' = "Starting"
    /\ UNCHANGED <<vars_decode, vars_match, vars_perf, vars_read, vars_poll, vars_tools, vars_scenario, vars_track>>
    /\ UNCHANGED <<request_counter, last_request_number, children, connections,
                   n_conns, step_error, last_query, os_desc, wire, issued>>

\* line 201: the timer of line 203 fires while the loop runs
RunPadreTimer ==
    /\ pc = "wait_banner"
    /\ waited >= TIMEOUT
    /\ run_future = "pending"
    /\ run_future' = "cancelled"
    /\ UNCHANGED <<vars_decode, vars_match, vars_perf, vars_read, vars_poll, vars_tools, vars_scenario, vars_track>>
    /\ UNCHANGED <<pd_pid, request_counter, last_request_number, children,
                   connections, n_conns, pc, step_error, waited, last_query,
                   procs, os_desc, wire, issued, lifecycle>>

\* line 232 on a cancelled future: set_result raises InvalidStateError
RunPadreLateBanner ==
    /\ pc = "wait_banner"
    /\ BannerLine(pd_pid[1]) # "pending"
    /\ run_future = "cancelled"
    /\ pc' = "failed"
    /\ step_error' = "InvalidStateError"
    /\ UNCHANGED <<vars_decode, vars_match, vars_perf, vars_read, vars_poll, vars_tools, vars_scenario, vars_track>>
    /\ UNCHANGED <<pd_pid, request_counter, last_request_number, children,
                   connections, n_conns, waited, run_future, last_query, procs,
                   os_desc, wire, issued, lifecycle>>

\* lines 232-241: the line is not the expected banner: assert_that fails
RunPadreBadBanner ==
    /\ pc = "wait_banner"
    /\ BannerLine(pd_pid[1]) # "pending"
    /\ ~BannerMatches(BannerLine(pd_pid[1]))
    /\ run_future = "pending"
    /\ run_future' = "done"
    /\ pc' = "failed"
    /\ step_error' = "AssertionError"
    /\ UNCHANGED <<vars_decode, vars_match, vars_perf, vars_read, vars_poll, vars_tools, vars_scenario, vars_track>>
    /\ UNCHANGED <<pd_pid, request_counter, last_request_number, children,
                   connections, n_conns, waited, last_query, procs, os_desc,
                   wire, issued, lifecycle>>

\* padre_debugger, lines 232-265 and 378-380: the banner matches,
\* context.connections is created, the task of print_stuff is scheduled, the
\* fixture yields, connect_to_padre opens a connection and get_children runs
PadreDebuggerStarted ==
    /\ pc = "wait_banner"
    /\ BannerMatches(BannerLine(pd_pid[1]))
    /\ run_future = "pending"
    /\ run_future' = "done"
    /\ lifecycle' = "Running"
    /\ IF ~Listening
       THEN /\ connections' = Some(<< >>)
            /\ pc' = "failed"
            /\ step_error' = "ConnectionRefusedError"
            /\ UNCHANGED <<n_conns, children>>
       ELSE /\ n_conns < MaxConns
            /\ connections' = Some(<<n_conns + 1>>)
            /\ n_conns' = n_conns + 1
            /\ IF PsutilFinds(pd_pid[1])
               THEN /\ children' = ChildrenAfter(pd_pid[1])
                    /\ pc' = "idle"
                    /\ UNCHANGED step_error
               ELSE /\ pc' = "failed"
                    /\ step_error' = "NoSuchProcess"
                    /\ UNCHANGED children
    /\ drain' = "running"
    /\ empties' = 0
    /\ cleanups' = cleanups + 1
    /\ UNCHANGED <<vars_decode, vars_match, vars_perf, vars_read, vars_poll, vars_tools, vars_track>>
    /\ UNCHANGED <<vars_conn, pipe, sigterm>>
    /\ UNCHANGED <<pd_pid, request_counter, last_request_number, waited,
                   last_query, procs, os_desc, wire, issued>>

\* the scenario ends and behave resumes the generators of run_padre that are
\* suspended at the yield of line 265: lines 267-268, which read
\* context.padre.process, the process spawned last
Teardown ==
    /\ pc \in {"idle", "failed"}
    /\ pc' = "ended"
    /\ IF cleanups > 0 /\ procs[pd_pid[1]].alive # "reaped"
       THEN sigterm' = sigterm \cup {pd_pid[1]}
       ELSE UNCHANGED sigterm
    /\ cleanups' = 0
    /\ UNCHANGED <<vars_decode, vars_match, vars_perf, vars_read, vars_poll, vars_tools, vars_track>>
    /\ UNCHANGED <<vars_conn, vars_drain>>
    /\ UNCHANGED <<pd_pid, request_counter, last_request_number, children,
                   connections, n_conns, step_error, waited, run_future,
                   last_query, procs, os_desc, wire, issued, lifecycle>>

\* connect_padre, lines 401-406 and 271-285
ConnectPadre ==
    /\ pc = "idle"
    /\ IF connections = None
       THEN /\ pc' = "failed"
            /\ step_error' = "AttributeError"
            /\ UNCHANGED <<connections, n_conns>>
       ELSE IF ~Listening
       THEN /\ pc' = "failed"
            /\ step_error' = "ConnectionRefusedError"
            /\ UNCHANGED <<connections, n_conns>>
       ELSE /\ n_conns < MaxConns
            /\ connections' = Some(Append(connections[1], n_conns + 1))
            /\ n_conns' = n_conns + 1
            /\ UNCHANGED <<pc, step_error>>
    /\ UNCHANGED <<vars_decode, vars_match, vars_perf, vars_read, vars_poll, vars_tools, vars_scenario, vars_track>>
    /\ UNCHANGED <<pd_pid, request_counter, last_request_number, children,
                   waited, run_future, last_query, procs, os_desc, wire, issued,
                   lifecycle>>

\* padre_request_raw, lines 432-451, for the text and connection index given:
\* the connection is looked up, the text written, get_children called
SendRaw(text, connection, counted) ==
    IF connections = None
    THEN /\ pc' = "failed"
         /\ step_error' = "AttributeError"
         /\ UNCHANGED <<wire, children>>
    ELSE IF connection >= Len(connections[1])
    THEN /\ pc' = "failed"
         /\ step_error' = "IndexError"
         /\ UNCHANGED <<wire, children>>
    ELSE /\ wire' = Append(wire, [conn |-> connections[1][connection + 1],
                                  text |-> text, counted |-> counted])
         /\ IF PsutilFinds(pd_pid[1])
            THEN /\ children' = ChildrenAfter(pd_pid[1])
                 /\ UNCHANGED <<pc, step_error>>
            ELSE /\ pc' = "failed"
                 /\ step_error' = "NoSuchProcess"
                 /\ UNCHANGED children

\* padre_request_raw as a step
PadreRequestRaw(connection) ==
    /\ pc = "idle"
    /\ Len(wire) < MaxRequests
    /\ SendRaw(RespOne, connection, FALSE)
    /\ UNCHANGED <<vars_decode, vars_match, vars_perf, vars_read, vars_poll, vars_tools, vars_scenario, vars_track>>
    /\ UNCHANGED <<pd_pid, request_counter, last_request_number, connections,
                   n_conns, waited, run_future, last_query, procs, os_desc,
                   issued, lifecycle>>

\* padre_request, lines 464-477: the request_counter property (lines 95-102)
\* is read first, then the request is handed to padre_request_raw
PadreRequest(connection) ==
    /\ pc = "idle"
    /\ Len(wire) < MaxRequests
    /\ last_request_number' = Some(LastAfterIssue(request_counter))
    /\ request_counter' = CounterAfterIssue(request_counter)
    /\ issued' = Append(issued, last_request_number'[1])
    /\ SendRaw(RequestText(last_request_number'[1], CmdRun), connection, TRUE)
    /\ UNCHANGED <<vars_decode, vars_match, vars_perf, vars_read, vars_poll, vars_tools, vars_scenario, vars_track>>
    /\ UNCHANGED <<pd_pid, connections, n_conns, waited, run_future,
                   last_query, procs, os_desc, lifecycle>>

\* the last_request_number property, lines 104-109
LastRequestNumber ==
    /\ pc = "idle"
    /\ last_query' = Some(last_request_number)
    /\ UNCHANGED <<vars_decode, vars_match, vars_perf, vars_read, vars_poll, vars_tools, vars_scenario, vars_track>>
    /\ UNCHANGED <<pd_pid, request_counter, last_request_number, children,
                   connections, n_conns, pc, step_error, waited, run_future,
                   procs, os_desc, wire, issued, lifecycle>>

\* list.remove of line 735
RemoveAt(list, i) == SubSeq(list, 1, i) \o SubSeq(list, i + 2, Len(list))

\* terminate_connection, lines 729-736
TerminateConnection(connection) ==
    /\ pc = "idle"
    /\ IF connections = None
       THEN /\ pc' = "failed"
            /\ step_error' = "AttributeError"
            /\ UNCHANGED connections
       ELSE IF connection >= Len(connections[1])
       THEN /\ pc' = "failed"
            /\ step_error' = "IndexError"
            /\ UNCHANGED connections
       ELSE /\ connections' = Some(RemoveAt(connections[1], connection))
            /\ UNCHANGED <<pc, step_error>>
    /\ UNCHANGED <<vars_decode, vars_match, vars_perf, vars_read, vars_poll, vars_tools, vars_scenario, vars_track>>
    /\ UNCHANGED <<pd_pid, request_counter, last_request_number, children,
                   n_conns, waited, run_future, last_query, procs, os_desc,
                   wire, issued, lifecycle>>

\* terminate_program, lines 739-750: kill -SIGINT <pid>, check=True
TerminateProgram ==
    /\ pc = "idle"
    /\ IF pd_pid = None
       THEN /\ pc' = "failed"
            /\ step_error' = "AttributeError"
            /\ UNCHANGED <<procs, lifecycle, waited>>
       ELSE IF procs[pd_pid[1]].alive = "reaped"
       THEN /\ pc' = "failed"
            /\ step_error' = "CalledProcessError"
            /\ UNCHANGED <<procs, lifecycle, waited>>
       ELSE /\ procs' = [procs EXCEPT ![pd_pid[1]].sigint = TRUE]
            /\ lifecycle' = "Terminating"
            /\ pc' = "wait_exit"
            /\ waited' = 0
            /\ UNCHANGED step_error
    /\ UNCHANGED <<vars_decode, vars_match, vars_perf, vars_read, vars_poll, vars_tools, vars_scenario, vars_track>>
    /\ UNCHANGED <<pd_pid, request_counter, last_request_number, children,
                   connections, n_conns, run_future, last_query, os_desc, wire,
                   issued>>

\* terminate_program, lines 752-757: process.wait() returns
TerminateWaitReturns ==
    /\ pc = "wait_exit"
    /\ procs[pd_pid[1]].alive = "reaped"
    /\ pc' = "idle"
    /\ lifecycle' = "Terminated"
    /\ UNCHANGED <<vars_decode, vars_match, vars_perf, vars_read, vars_poll, vars_tools, vars_scenario, vars_track>>
    /\ UNCHANGED <<pd_pid, request_counter, last_request_number, children,
                   connections, n_conns, step_error, waited, run_future,
                   last_query, procs, os_desc, wire, issued>>

\* time passes while run_until_complete has nothing to run: no line to read,
\* no exit to report, no timer due
Tick ==
    /\ \/ pc = "wait_banner" /\ BannerLine(pd_pid[1]) = "pending"
          /\ ~(run_future = "pending" /\ waited >= TIMEOUT)
       \/ pc = "wait_exit" /\ procs[pd_pid[1]].alive # "reaped"
    /\ waited <= TIMEOUT
    /\ waited' = waited + TICK
    /\ UNCHANGED <<vars_decode, vars_match, vars_perf, vars_read, vars_poll, vars_tools, vars_scenario, vars_track>>
    /\ UNCHANGED <<pd_pid, request_counter, last_request_number, children,
                   connections, n_conns, pc, step_error, run_future, last_query,
                   procs, os_desc, wire, issued, lifecycle>>

OnlyProcs ==
    UNCHANGED <<vars_decode, vars_match, vars_perf, vars_read, vars_poll, vars_tools, vars_scenario, vars_track, pd_pid, request_counter, last_request_number, children,
                connections, n_conns, pc, step_error, waited, run_future,
                last_query, wire, issued, lifecycle>>

\* The server under test, while the scenario runs (a step that raised ends
\* the scenario).
\* the server prints its first line: the banner or something else
ProcPrintsLine(p, line) ==
    /\ pc # "failed"
    /\ Alive(p)
    /\ procs[p].banner = "none"
    /\ procs' = [procs EXCEPT ![p].banner = line]
    /\ UNCHANGED os_desc
    /\ OnlyProcs

\* the exit codes a server ends with
ExitCodes == {0, 1}

\* the server exits, on a signal or by itself
ProcExits(p, code) ==
    /\ pc # "failed"
    /\ Alive(p)
    /\ procs' = [procs EXCEPT ![p].alive = "exited", ![p].code = code]
    /\ UNCHANGED os_desc
    /\ OnlyProcs

\* the exited server is reaped (asyncio's child watcher, which runs in the
\* event loop: not while padre_not_running sleeps)
ProcReaped(p) ==
    /\ pc \notin {"failed", "polling", "settle", "sleeping"}
    /\ procs[p].alive = "exited"
    /\ procs' = [procs EXCEPT ![p].alive = "reaped"]
    /\ UNCHANGED os_desc
    /\ OnlyProcs

(***************************************************************************)
(* The server's stdout after the banner and the task of print_stuff, lines *)
(* 244-263; the steps that sleep, lines 383-398 and 721-726                *)
(***************************************************************************)
\* the main flow is inside loop.run_until_complete: only then do the tasks
\* scheduled on the loop run
LoopRunning == pc \in {"wait_banner", "wait_exit"}

OnlyDrain ==
    UNCHANGED <<vars_decode, vars_harness, vars_match, vars_perf, vars_read,
                vars_poll, vars_tools, vars_track, vars_conn, vars_fixture>>

\* the server writes a line to its stdout after the banner; the write blocks
\* while the pipe is full
ServerPrints ==
    /\ pc \notin {"failed", "ended"}
    /\ pd_pid # None
    /\ Alive(pd_pid[1])
    /\ procs[pd_pid[1]].banner # "none"
    /\ Len(pipe) < PipeCap
    /\ pipe' = Append(pipe, "line")
    /\ UNCHANGED <<drain, empties>>
    /\ OnlyDrain

\* lines 249-252: readline returns a line
DrainLine ==
    /\ drain = "running"
    /\ LoopRunning
    /\ pipe # << >>
    /\ pipe' = Tail(pipe)
    /\ empties' = 0
    /\ UNCHANGED drain
    /\ OnlyDrain

\* lines 249-256: readline returns b"" at end of file; the third in a row
\* breaks the loop
DrainEmpty ==
    /\ drain = "running"
    /\ LoopRunning
    /\ pipe = << >>
    /\ ~Alive(pd_pid[1])
    /\ empties' = empties + 1
    /\ drain' = IF empties + 1 = 3 THEN "ended" ELSE "running"
    /\ UNCHANGED pipe
    /\ OnlyDrain

\* sleep_moment, sleep_at_startup, sleep_seconds: time.sleep begins
SleepBegin ==
    /\ pc = "idle"
    /\ pc' = "sleeping"
    /\ UNCHANGED <<vars_decode, vars_match, vars_perf, vars_read, vars_poll, vars_tools, vars_scenario, vars_track>>
    /\ UNCHANGED <<pd_pid, request_counter, last_request_number, children,
                   connections, n_conns, step_error, waited, run_future,
                   last_query, procs, os_desc, wire, issued, lifecycle>>

\* time.sleep returns
SleepEnd ==
    /\ pc = "sleeping"
    /\ pc' = "idle"
    /\ UNCHANGED <<vars_decode, vars_match, vars_perf, vars_read, vars_poll, vars_tools, vars_scenario, vars_track>>
    /\ UNCHANGED <<pd_pid, request_counter, last_request_number, children,
                   connections, n_conns, step_error, waited, run_future,
                   last_query, procs, os_desc, wire, issued, lifecycle>>

\* a listening server spawns a debuggee
DebuggeeSpawns(p) ==
    /\ pc # "failed"
    /\ Alive(p)
    /\ procs[p].banner = "ok"
    /\ Cardinality(os_desc) < MaxChildren
    /\ os_desc' = os_desc \cup {<<p, Cardinality(os_desc) + 1>>}
    /\ UNCHANGED procs
    /\ OnlyProcs

\* a descendant of a server exits
DebuggeeExits(d) ==
    /\ pc # "failed"
    /\ d \in os_desc
    /\ os_desc' = os_desc \ {d}
    /\ UNCHANGED procs
    /\ OnlyProcs

(***************************************************************************)
(* padre_not_running (lines 760-778)                                       *)
(***************************************************************************)
\* range(50) of line 765
POLLS == 50

\* process.returncode: None until the loop has reaped the process
ReturnCode(p) == IF procs[p].alive = "reaped" THEN Some(procs[p].code) ELSE None

\* psutil.pids() restricted to the servers: a process is listed until reaped
LivePids == {p \in 1..Len(procs) : procs[p].alive # "reaped"}

\* psutil.pids() restricted to the descendants
LiveDesc == {d[2] : d \in os_desc}

PidsGoneServerOnly(pid, kids) == pid \notin LivePids

\* lines 775-778: neither the pid nor a tracked child is in running
PidsGone(pid, kids) == pid \notin LivePids /\ kids \cap LiveDesc = {}

OnlyPoll ==
    /\ UNCHANGED <<vars_decode, vars_match, vars_perf, vars_read, vars_track, vars_scenario, vars_tools>>
    /\ UNCHANGED <<pd_pid, request_counter, last_request_number, children,
                   connections, n_conns, waited, run_future, last_query, procs,
                   os_desc, wire, issued, lifecycle>>

\* the step begins: line 766 reads context.padre.process.returncode
NotRunningBegin ==
    /\ pc = "idle"
    /\ IF pd_pid = None
       THEN pc' = "failed" /\ step_error' = "AttributeError"
       ELSE pc' = "polling" /\ UNCHANGED step_error
    /\ polls' = 0
    /\ not_running' = "none"
    /\ OnlyPoll

\* lines 765-768: returncode is not 0, the step sleeps and polls again
Poll ==
    /\ pc = "polling"
    /\ polls < POLLS
    /\ ReturnCode(pd_pid[1]) # Some(0)
    /\ polls' = polls + 1
    /\ UNCHANGED <<pc, step_error, not_running>>
    /\ OnlyPoll

\* lines 766-770: the loop ends, by break or after the last poll, and the
\* exit code is asserted to be 0
PollEnds ==
    /\ pc = "polling"
    /\ ReturnCode(pd_pid[1]) = Some(0) \/ polls = POLLS
    /\ IF ReturnCode(pd_pid[1]) = Some(0)
       THEN pc' = "settle" /\ UNCHANGED step_error
       ELSE pc' = "failed" /\ step_error' = "AssertionError"
    /\ UNCHANGED <<polls, not_running>>
    /\ OnlyPoll

\* lines 772-778: after the sleep, psutil.pids() is taken and searched
CheckPids ==
    /\ pc = "settle"
    /\ IF PidsGone(pd_pid[1], children)
       THEN pc' = "idle" /\ not_running' = "passed" /\ UNCHANGED step_error
       ELSE pc' = "failed" /\ step_error' = "AssertionError"
                           /\ UNCHANGED not_running
    /\ UNCHANGED polls
    /\ OnlyPoll

(***************************************************************************)
(* send_terminal_command (lines 692-718)                                   *)
(***************************************************************************)
\* the command is written to the server's stdin and drained
SendTerminalCommand ==
    /\ pc = "idle"
    /\ stdin_cmds < MaxRequests
    /\ IF pd_pid = None
       THEN /\ pc' = "failed"
            /\ step_error' = "AttributeError"
            /\ UNCHANGED stdin_cmds
       ELSE IF ~Alive(pd_pid[1])
       THEN /\ pc' = "failed"
            /\ step_error' = "BrokenPipeError"
            /\ UNCHANGED stdin_cmds
       ELSE /\ stdin_cmds' = stdin_cmds + 1
            /\ UNCHANGED <<pc, step_error>>
    /\ UNCHANGED <<vars_decode, vars_match, vars_perf, vars_read, vars_poll, vars_tools, vars_scenario>>
    /\ UNCHANGED <<tk_pc, tk_read, tk_obs>>
    /\ UNCHANGED <<pd_pid, request_counter, last_request_number, children,
                   connections, n_conns, waited, run_future, last_query, procs,
                   os_desc, wire, issued, lifecycle>>

(***************************************************************************)
(* Padre.get_children (lines 130-136), statement by statement, for callers *)
(* that run at the same time                                               *)
(***************************************************************************)
OnlyTrack ==
    /\ UNCHANGED <<vars_decode, vars_match, vars_perf, vars_read, vars_poll, vars_tools, vars_scenario, stdin_cmds>>
    /\ UNCHANGED <<pd_pid, request_counter, last_request_number, connections,
                   n_conns, pc, step_error, waited, run_future, last_query,
                   procs, os_desc, wire, issued, lifecycle>>

\* line 134: self._children is loaded
GetChildrenRead(c) ==
    /\ pc = "idle" /\ pd_pid # None
    /\ tk_pc[c] = "idle"
    /\ tk_pc' = [tk_pc EXCEPT ![c] = "read"]
    /\ tk_read' = [tk_read EXCEPT ![c] = children]
    /\ UNCHANGED <<tk_obs, children>>
    /\ OnlyTrack

\* line 135: psutil lists the descendants
GetChildrenObserve(c) ==
    /\ tk_pc[c] = "read"
    /\ PsutilFinds(pd_pid[1])
    /\ tk_pc' = [tk_pc EXCEPT ![c] = "observed"]
    /\ tk_obs' = [tk_obs EXCEPT ![c] = Descendants(pd_pid[1])]
    /\ UNCHANGED <<tk_read, children>>
    /\ OnlyTrack

\* line 134: the union is stored in self._children
GetChildrenWrite(c) ==
    /\ tk_pc[c] = "observed"
    /\ tk_pc' = [tk_pc EXCEPT ![c] = "done"]
    /\ children' = tk_read[c] \cup tk_obs[c]
    /\ UNCHANGED <<tk_read, tk_obs>>
    /\ OnlyTrack

(***************************************************************************)
(* steptest.py: PadreConnection                                            *)
(***************************************************************************)
\* PadreConnection.__init__, lines 26-29
InitPerf ==
    /\ perf_counter = 1
    /\ perf_wire = << >>
    /\ perf_ret = << >>

StepIn == <<"{", "\"", "c", "m", "d", "\"", ":", "\"", "s", "t", "e", "p", "I", "n", "\"", "}">>
StepOver == <<"{", "\"", "c", "m", "d", "\"", ":", "\"", "s", "t", "e", "p", "O", "v", "e", "r", "\"", "}">>

\* PadreConnection._send, lines 134-145
PerfSend(msg) ==
    /\ Len(perf_wire) < MaxRequests
    /\ perf_counter' = CounterAfterIssue(perf_counter)
    /\ perf_wire' = Append(perf_wire, PerfText(perf_counter, msg))
    /\ perf_ret' = Append(perf_ret, perf_counter)
    /\ UNCHANGED <<vars_decode, vars_match, vars_harness, vars_read, vars_poll, vars_tools, vars_scenario, vars_track>>

(***************************************************************************)
(* read_results (lines 668-689) over do_read_from_padre (lines 139-172)    *)
(* and the asyncio event loop                                              *)
(***************************************************************************)
InitRead ==
    /\ now = 0
    /\ rr_pc = "idle"
    /\ expected_results = 0
    /\ rr_results = << >>
    /\ rr_timeout = 0
    /\ futs = << >>
    /\ timers = {}
    /\ wf_deadline = 0
    /\ sock = << >>
    /\ peer_sent = 0
    /\ outcome = [kind |-> "none", value |-> << >>]
    /\ decoded = << >>

\* the state in which a scenario begins
InitPoll == polls = 0 /\ not_running = "none"

\* no Buffer is written and the BufferList is new (line 28)
NoBuffers ==
    /\ buf_lines = <<<< >>>>
    /\ modifiable = TRUE
    /\ buf_call = [op |-> "none"]
    /\ buf_raised = "none"
    /\ bl_buffers = << >>
    /\ bl_got = << >>

\* RunPadre.__init__ (RunPadre.py line 16) and a server that sent nothing
NoExpect ==
    /\ ex_buffer = << >>
    /\ ex_socket = << >>
    /\ ex_sent = 0
    /\ ex_out = [kind |-> "none"]

\* ptywrapper.py lines 15-17: the globals, before spawn is called
NoPty ==
    /\ pw_pc = "start"
    /\ PID = -1
    /\ TTY_MODE = << >>
    /\ pw_fds = {}
    /\ pw_term = "cooked"
    /\ pw_child = "none"
    /\ pw_stdin = "open"
    /\ pw_relayed = 0
    /\ pw_kills = << >>
    /\ pw_exit = << >>

InitTools == NoBuffers /\ NoExpect /\ NoPty

\* no connection has data, no drain task exists, no fixture is suspended
InitScenario ==
    /\ inbox = [c \in 1..(MaxConns + 1) |-> << >>]
    /\ handed = [c \in 1..(MaxConns + 1) |-> << >>]
    /\ pipe = << >>
    /\ drain = "none"
    /\ empties = 0
    /\ cleanups = 0
    /\ sigterm = {}

\* no matching function has been called
NoMatch == mt_in = [op |-> "none"] /\ mt_out = "none"

\* two callers of get_children, none of them in the call
Callers == {1, 2}

InitTrack ==
    /\ stdin_cmds = 0
    /\ tk_pc = [c \in Callers |-> "idle"]
    /\ tk_read = [c \in Callers |-> {}]
    /\ tk_obs = [c \in Callers |-> {}]

Init == InitHarness /\ NoStream /\ InitPerf /\ InitRead /\ InitPoll /\ InitTools /\ InitScenario /\ InitTrack /\ NoMatch

OnlyRead == UNCHANGED <<vars_decode, vars_match, vars_harness, vars_perf, vars_poll, vars_tools, vars_scenario, vars_track>>

\* a handle of loop.call_at(when, cancel): cancel of read_results (line 678)
\* names the variable future of read_results (cell), cancel of
\* do_read_from_padre (line 144) names its own parameter (the future fut)
Timer(when, cell, fut) == [when |-> when, cell |-> cell, fut |-> fut]

\* the future a timer's cancel() reaches when it runs
Target(t) == IF t.cell THEN Len(futs) ELSE t.fut

\* Future.cancel(): only a pending future becomes cancelled
Cancel(state) == IF state = "pending" THEN "cancelled" ELSE state

Due(t) == t.when <= now

\* lines 672-674
ReadResultsCall(n) ==
    /\ rr_pc = "idle"
    /\ expected_results' = n
    /\ rr_results' = << >>
    /\ rr_timeout' = now + TIMEOUT
    /\ rr_pc' = "loop"
    /\ UNCHANGED <<now, futs, timers, wf_deadline, sock, peer_sent, outcome,
                   decoded>>
    /\ OnlyRead

\* line 675 false, line 689: the list is returned
ReadResultsReturn ==
    /\ rr_pc = "loop"
    /\ ~(Len(rr_results) < expected_results)
    /\ outcome' = [kind |-> "return", value |-> rr_results]
    /\ rr_pc' = "returned"
    /\ UNCHANGED <<now, expected_results, rr_results, rr_timeout, futs, timers,
                   wf_deadline, sock, peer_sent, decoded>>
    /\ OnlyRead

\* line 675 true, lines 676-683 and 144-154: a future is created, the two
\* cancel timers are set and the read waits under wait_for
StartRead ==
    /\ rr_pc = "loop"
    /\ Len(rr_results) < expected_results
    /\ futs' = Append(futs, "pending")
    /\ timers' = timers \cup {Timer(now + TIMEOUT, TRUE, 0),
                               Timer(now + TIMEOUT, FALSE, Len(futs) + 1)}
    /\ wf_deadline' = now + TIMEOUT
    /\ rr_pc' = "reading"
    /\ UNCHANGED <<now, expected_results, rr_results, rr_timeout, sock, peer_sent,
                   outcome, decoded>>
    /\ OnlyRead

\* the loop runs a timer that is due
TimerFires(t) ==
    /\ rr_pc = "reading"
    /\ t \in timers
    /\ Due(t)
    /\ futs' = [futs EXCEPT ![Target(t)] = Cancel(@)]
    /\ timers' = timers \ {t}
    /\ UNCHANGED <<now, rr_pc, expected_results, rr_results, rr_timeout,
                   wf_deadline, sock, peer_sent, outcome, decoded>>
    /\ OnlyRead

\* line 154: wait_for gives up, after the timers set before it have run;
\* asyncio.TimeoutError leaves run_until_complete and read_results
WaitForTimeout ==
    /\ rr_pc = "reading"
    /\ now >= wf_deadline
    /\ ~\E t \in timers : t.when <= wf_deadline
    /\ outcome' = [kind |-> "TimeoutError", value |-> << >>]
    /\ rr_pc' = "raised"
    /\ UNCHANGED <<now, expected_results, rr_results, rr_timeout, futs, timers,
                   wf_deadline, sock, peer_sent, decoded>>
    /\ OnlyRead

\* lines 150-172 and 684: reader.read returns what is buffered, the text is
\* decoded and set_result is called on the future; read_results extends its
\* list
ReadCompletes ==
    /\ rr_pc = "reading"
    /\ sock # << >>
    /\ sock' = << >>
    /\ LET d == DecodeLine(sock) IN
       IF ~d.ok
       THEN /\ outcome' = [kind |-> "ValueError", value |-> << >>]
            /\ rr_pc' = "raised"
            /\ UNCHANGED <<rr_results, futs, decoded>>
       ELSE /\ decoded' = decoded \o d.results
            /\ IF futs[Len(futs)] = "pending"
               THEN /\ futs' = [futs EXCEPT ![Len(futs)] = "done"]
                    /\ rr_results' = rr_results \o d.results
                    /\ rr_pc' = "check"
                    /\ UNCHANGED outcome
               ELSE /\ outcome' = [kind |-> "InvalidStateError", value |-> << >>]
                    /\ rr_pc' = "raised"
                    /\ UNCHANGED <<rr_results, futs>>
    /\ UNCHANGED <<now, expected_results, rr_timeout, timers, wf_deadline,
                   peer_sent>>
    /\ OnlyRead

\* lines 686-687: past the timeout the exception is raised, with its message
\* as only argument
TimeCheck ==
    /\ rr_pc = "check"
    /\ IF now > rr_timeout
       THEN /\ outcome' = [kind |-> "Exception", value |-> << >>]
            /\ rr_pc' = "raised"
       ELSE /\ rr_pc' = "loop"
            /\ UNCHANGED outcome
    /\ UNCHANGED <<now, expected_results, rr_results, rr_timeout, futs, timers,
                   wf_deadline, sock, peer_sent, decoded>>
    /\ OnlyRead

\* the peer writes a message and it arrives
PeerSends(msg) ==
    /\ rr_pc \in {"loop", "reading", "check"}
    /\ peer_sent < MaxMsgs
    /\ Len(sock) + Len(msg) <= CHUNK
    /\ sock' = sock \o msg
    /\ peer_sent' = peer_sent + 1
    /\ UNCHANGED <<now, rr_pc, expected_results, rr_results, rr_timeout, futs,
                   timers, wf_deadline, outcome, decoded>>
    /\ OnlyRead

\* time passes: inside run_until_complete while the loop has nothing to run
\* (nothing to read, no timer due, wait_for not yet due), or while the code
\* between the read and the time check runs
ClockAdvances ==
    /\ now < MaxTime
    /\ \/ rr_pc = "check"
       \/ /\ rr_pc = "reading"
          /\ sock = << >>
          /\ now < wf_deadline
          /\ ~\E t \in timers : Due(t)
    /\ now' = now + TICK
    /\ UNCHANGED <<rr_pc, expected_results, rr_results, rr_timeout, futs, timers,
                   wf_deadline, sock, peer_sent, outcome, decoded>>
    /\ OnlyRead

NextRead ==
    \/ \E n \in 1..MaxExpected : ReadResultsCall(n)
    \/ ReadResultsReturn
    \/ StartRead
    \/ \E t \in timers : TimerFires(t)
    \/ WaitForTimeout
    \/ ReadCompletes
    \/ TimeCheck
    \/ \E msg \in {RespOne, RespTwoOK} : PeerSends(msg)
    \/ ClockAdvances

SpecRead == Init /\ [][NextRead]_vars

Next ==
    \/ RunPadreSpawn
    \/ RunPadreTimer
    \/ RunPadreLateBanner
    \/ RunPadreBadBanner
    \/ PadreDebuggerStarted
    \/ ConnectPadre
    \/ \E c \in 0..(MaxConns - 1) : PadreRequestRaw(c)
    \/ \E c \in 0..(MaxConns - 1) : PadreRequest(c)
    \/ \E c \in 0..(MaxConns - 1) : TerminateConnection(c)
    \/ TerminateProgram
    \/ TerminateWaitReturns
    \/ Tick
    \/ \E p \in 1..Len(procs), line \in {"ok", "bad"} : ProcPrintsLine(p, line)
    \/ \E p \in 1..Len(procs), code \in ExitCodes : ProcExits(p, code)
    \/ \E p \in 1..Len(procs) : ProcReaped(p)
    \/ \E p \in 1..Len(procs) : DebuggeeSpawns(p)

\* the harness and the server under test
Spec == Init /\ [][Next]_vars

\* the steps that open connections and send requests, against a server
\* that prints its banner and stays up, and the perf test's sends
NextRequests ==
    \/ RunPadreSpawn
    \/ \E p \in 1..Len(procs) : ProcPrintsLine(p, "ok")
    \/ PadreDebuggerStarted
    \/ ConnectPadre
    \/ \E c \in 0..(MaxConns - 1) : PadreRequestRaw(c)
    \/ \E c \in 0..(MaxConns - 1) : PadreRequest(c)
    \/ \E c \in 0..(MaxConns - 1) : TerminateConnection(c)
    \/ \E msg \in {StepIn, StepOver} : PerfSend(msg)

SpecRequests == Init /\ [][NextRequests]_vars

\* the same steps, and the step that reads last_request_number
NextQuery ==
    \/ RunPadreSpawn
    \/ \E p \in 1..Len(procs) : ProcPrintsLine(p, "ok")
    \/ PadreDebuggerStarted
    \/ ConnectPadre
    \/ \E c \in 0..(MaxConns - 1) : PadreRequest(c)
    \/ LastRequestNumber

SpecQuery == Init /\ [][NextQuery]_vars

\* a stream to decode, nothing else having happened
InitStream ==
    InitDecode /\ InitHarness /\ InitPerf /\ InitRead /\ InitPoll /\ InitTools /\ InitScenario /\ InitTrack /\ NoMatch

InitMalformed ==
    /\ \E inp \in MalformedInputs :
           /\ peer_vals = inp.vals
           /\ peer_gap = inp.gap
           /\ peer_text = inp.text
           /\ net = inp.text
    /\ rbuf = << >> /\ out = << >> /\ rd_err = "none" /\ rd_msg = None
    /\ nsegs = 0 /\ nreads = 0
    /\ InitHarness /\ InitPerf /\ InitRead /\ InitPoll /\ InitTools /\ InitScenario /\ InitTrack /\ NoMatch

SpecMalformed == InitMalformed /\ [][NextDecode]_vars

(***************************************************************************)
(* Decoded JSON values (what json.loads returns, lines 574, 634, 641) and  *)
(* the Python operations the matching functions apply to them              *)
(***************************************************************************)
VInt(n) == [t |-> "int", n |-> n, s |-> << >>, items |-> << >>]
VStr(s) == [t |-> "str", n |-> 0, s |-> s, items |-> << >>]
VNull == [t |-> "null", n |-> 0, s |-> << >>, items |-> << >>]
VList(items) == [t |-> "list", n |-> 0, s |-> << >>, items |-> items]
\* a dict is the sequence of its pairs, a pair a key and one value
VPair(key, value) == [t |-> "pair", n |-> 0, s |-> key, items |-> <<value>>]
VDict(pairs) == [t |-> "dict", n |-> 0, s |-> << >>, items |-> pairs]

\* x[i] for an integer i: the value, or the exception raised
Index(x, i) ==
    CASE x.t = "list" ->
             IF i < Len(x.items) THEN [err |-> "none", val |-> x.items[i + 1]]
             ELSE [err |-> "IndexError", val |-> VNull]
      [] x.t = "str" ->
             IF i < Len(x.s) THEN [err |-> "none", val |-> VStr(<<x.s[i + 1]>>)]
             ELSE [err |-> "IndexError", val |-> VNull]
      [] x.t = "dict" -> [err |-> "KeyError", val |-> VNull]
      [] OTHER -> [err |-> "TypeError", val |-> VNull]

\* x == "..." for a str
EqStr(x, s) == x.t = "str" /\ x.s = s

\* x == n for an int
EqInt(x, n) == x.t = "int" /\ x.n = n

\* str(x), for the values the inputs hold: ints, strings, None and {}
Str(x) ==
    CASE x.t = "int" -> IntToText(x.n)
      [] x.t = "str" -> x.s
      [] x.t = "null" -> <<"N", "o", "n", "e">>
      [] OTHER -> <<"{", "}">>

\* what a for loop over x iterates: the items of a list, the keys of a dict,
\* the characters of a str
Iter(x) ==
    CASE x.t = "list" -> x.items
      [] x.t = "dict" -> [k \in 1..Len(x.items) |-> VStr(x.items[k].s)]
      [] OTHER -> [k \in 1..Len(x.s) |-> VStr(<<x.s[k]>>)]

\* re.compile(pattern).match(text) for a pattern without metacharacters:
\* the text begins with the pattern
ReMatchExact(pattern, text) == text = pattern

ReMatch(pattern, text) == StartsWith(text, 0, pattern)

RECURSIVE ComprehensionError(_, _, _)
\* [x[i] for x in xs]: the first exception raised, "none" when none is
ComprehensionError(xs, i, k) ==
    IF k > Len(xs) THEN "none"
    ELSE IF Index(xs[k], i).err # "none" THEN Index(xs[k], i).err
    ELSE ComprehensionError(xs, i, k + 1)

(***************************************************************************)
(* check_calls_in (lines 565-603)                                          *)
(***************************************************************************)
Call == <<"c", "a", "l", "l">>

RECURSIVE ArgsLoop(_, _, _)
\* lines 590-597: the loop over the arguments of the notification; i is the
\* 0-based index of enumerate
ArgsLoop(actual, args, i) ==
    IF i >= Len(actual) THEN "found"
    ELSE IF i >= Len(args) THEN "IndexError"
    ELSE IF args[i + 1].t = "dict" THEN ArgsLoop(actual, args, i + 1)
    ELSE IF ~ReMatch(Str(args[i + 1]), Str(actual[i + 1])) THEN "not found"
    ELSE ArgsLoop(actual, args, i + 1)

\* lines 589-597 for one notification
CandidateMatch(x, args) ==
    IF Index(x, 2).err # "none" THEN Index(x, 2).err
    ELSE IF Index(x, 2).val.t \in {"int", "null"} THEN "TypeError"
    ELSE ArgsLoop(Iter(Index(x, 2).val), args, 0)

RECURSIVE Candidates(_, _, _)
\* lines 588-603: the notifications are tried in order
Candidates(cands, k, args) ==
    IF k > Len(cands) THEN "AssertionError"
    ELSE LET r == CandidateMatch(cands[k], args) IN
         IF r = "found" THEN "pass"
         ELSE IF r = "not found" THEN Candidates(cands, k + 1, args)
         ELSE r

check_calls_in(results, function, args) ==
    IF ComprehensionError(results, 0, 1) # "none"
    THEN ComprehensionError(results, 0, 1)
    ELSE LET calls == SelectSeq(results, LAMBDA x : EqStr(Index(x, 0).val, Call)) IN
    IF calls = << >> THEN "AssertionError"
    ELSE IF ComprehensionError(calls, 1, 1) # "none"
    THEN ComprehensionError(calls, 1, 1)
    ELSE LET named == SelectSeq(calls, LAMBDA x : EqStr(Index(x, 1).val, function)) IN
    IF named = << >> THEN "AssertionError"
    ELSE Candidates(named, 1, args)

\* messages and expectations to match
FnF == <<"f">>
FnG == <<"g">>
Notification(function, args) == VList(<<VStr(Call), VStr(function), VList(args)>>)
Response(n, body) == VList(<<VInt(n), body>>)

ArgLists ==
    {<< >>, <<VInt(4)>>, <<VInt(4), VStr(<<"T">>)>>, <<VInt(4), VStr(<<"T", "X">>)>>,
     <<VInt(5)>>}

ExpectedArgLists == ArgLists \cup {<<VDict(<< >>)>>, <<VInt(4), VDict(<< >>)>>}

Messages ==
    {Notification(FnF, a) : a \in ArgLists}
        \cup {Notification(FnG, <<VInt(4)>>), Response(1, VDict(<< >>))}

RECURSIVE SeqsUpTo(_, _)
\* the sequences of at most n elements of S
SeqsUpTo(S, n) ==
    IF n = 0 THEN {<< >>}
    ELSE SeqsUpTo(S, n - 1)
             \cup {Append(q, x) : q \in {r \in SeqsUpTo(S, n - 1) : Len(r) = n - 1}, x \in S}

MatchInput(op, results, function, args, number, actual, expected) ==
    [op |-> op, results |-> results, function |-> function, args |-> args,
     number |-> number, actual |-> actual, expected |-> expected]

CallsInputs ==
    {MatchInput("check_calls_in", r, FnF, a, None, VNull, VNull) :
         r \in SeqsUpTo(Messages, MaxResults), a \in ExpectedArgLists}

\* a matching function that empties the list it is given
ResultsAfterMatchConsumed(results) == << >>

\* lines 574-586 and 634-635: the comprehensions build new lists and bind
\* them to local names; the list passed in is as it was
ResultsAfterMatch(results) == results

OnlyMatch ==
    UNCHANGED <<vars_decode, vars_harness, vars_perf, vars_read, vars_poll, vars_tools, vars_scenario,
                vars_track>>

CheckCallsIn ==
    /\ mt_in.op = "check_calls_in"
    /\ mt_out = "none"
    /\ mt_out' = check_calls_in(mt_in.results, mt_in.function, mt_in.args)
    /\ mt_in' = [mt_in EXCEPT !.results = ResultsAfterMatch(@)]
    /\ OnlyMatch

(***************************************************************************)
(* check_json (lines 645-665) and check_response_in (lines 626-642)        *)
(***************************************************************************)
\* response.keys()
Keys(x) == {x.items[k].s : k \in 1..Len(x.items)}

\* response[key] for a key of the dict
Get(x, key) == x.items[CHOOSE k \in 1..Len(x.items) : x.items[k].s = key].items[1]

\* pattern.search(text) for a pattern without metacharacters: the text
\* contains the pattern
ReSearch(pattern, text) == \E i \in 0..Len(text) : StartsWith(text, i, pattern)

IntLeafEqual(actual, expected) == expected.t = "int" /\ actual.n = expected.n

\* line 657: assert_that(actual, expected, "Integers match"): the second
\* argument is no Matcher, so hamcrest asserts that the first is true
IntLeafPasses(actual, expected) == actual.n # 0

\* lines 658-663: a leaf that is neither int nor dict
StrLeaf(actual, expected) ==
    IF expected.t # "str" THEN "AttributeError"
    ELSE IF actual.t # "str" THEN "TypeError"
    ELSE IF ReSearch(expected.s, actual.s) THEN "pass"
    ELSE "AssertionError: Response regexp matches"

RECURSIVE check_json(_, _)
RECURSIVE KeysLoop(_, _, _)
\* lines 655-665: the loop over the keys of the response
KeysLoop(response, expected, k) ==
    IF k > Len(response.items) THEN "pass"
    ELSE LET actual == response.items[k].items[1]
             wanted == Get(expected, response.items[k].s)
             r == IF actual.t = "int"
                  THEN IF IntLeafPasses(actual, wanted) THEN "pass"
                       ELSE "AssertionError: Integers match"
                  ELSE IF actual.t # "dict" THEN StrLeaf(actual, wanted)
                  ELSE check_json(actual, wanted)
         IN IF r = "pass" THEN KeysLoop(response, expected, k + 1) ELSE r

check_json(response, expected) ==
    IF response.t # "dict" \/ expected.t # "dict" THEN "AttributeError"
    ELSE IF Keys(response) # Keys(expected)
    THEN "AssertionError: Got correct keys in response"
    ELSE KeysLoop(response, expected, 1)

\* x[0] == request_number, request_number being None or an int
EqNumber(x, number) ==
    IF number = None THEN x.t = "null" ELSE EqInt(x, number[1])

ResponsesOfAnyNumber(results, number) ==
    SelectSeq(results, LAMBDA x : Index(x, 0).val.t = "int")

\* line 635: the messages whose first element is the request number
Responses(results, number) ==
    SelectSeq(results, LAMBDA x : EqNumber(Index(x, 0).val, number))

check_response_in(results, number, expected) ==
    IF ComprehensionError(results, 0, 1) # "none"
    THEN ComprehensionError(results, 0, 1)
    ELSE IF Len(Responses(results, number)) # 1
    THEN "AssertionError: Got 1 response"
    ELSE IF Index(Responses(results, number)[1], 1).err # "none"
    THEN Index(Responses(results, number)[1], 1).err
    ELSE check_json(Index(Responses(results, number)[1], 1).val, expected)

KeyA == <<"a">>
KeyB == <<"b">>
OK == <<"O", "K">>

Leaves ==
    {VInt(0), VInt(5), VInt(7), VStr(OK), VStr(<<"K">>), VDict(<< >>),
     VDict(<<VPair(KeyA, VInt(5))>>), VDict(<<VPair(KeyB, VInt(5))>>)}

Bodies ==
    {VDict(<< >>)}
        \cup {VDict(<<VPair(KeyA, l)>>) : l \in Leaves}
        \cup {VDict(<<VPair(KeyA, l), VPair(KeyB, VInt(5))>>) : l \in {VInt(5), VStr(OK)}}
        \cup {VDict(<<VPair(KeyA, VDict(<<VPair(KeyA, l)>>))>>) :
                  l \in {VInt(7), VDict(<< >>), VDict(<<VPair(KeyA, VInt(5))>>)}}

JsonInputs ==
    {MatchInput("check_json", << >>, << >>, << >>, None, a, e) :
         a \in Bodies, e \in Bodies}

BodyOK == VDict(<<VPair(KeyA, VStr(OK))>>)

\* the two shapes of a message
WellFormedMessages ==
    {Response(1, BodyOK), Response(1, VDict(<< >>)), Response(2, BodyOK),
     Notification(FnF, << >>)}

\* values of other shapes
OtherShapes ==
    {VDict(<< >>), VInt(5), VList(<< >>), VList(<<VStr(FnF)>>), VList(<<VInt(1)>>),
     VList(<<VNull, BodyOK>>), VList(<<VInt(1), BodyOK, VStr(FnF)>>)}

ResponseInputs ==
    {MatchInput("check_response_in", r, << >>, << >>, n, VNull, e) :
         r \in SeqsUpTo(WellFormedMessages \cup OtherShapes, MaxResults),
         n \in {Some(1)}, e \in {BodyOK}}

CheckJson ==
    /\ mt_in.op = "check_json"
    /\ mt_out = "none"
    /\ mt_out' = check_json(mt_in.actual, mt_in.expected)
    /\ UNCHANGED mt_in
    /\ OnlyMatch

CheckResponseIn ==
    /\ mt_in.op = "check_response_in"
    /\ mt_out = "none"
    /\ mt_out' = check_response_in(mt_in.results, mt_in.number, mt_in.expected)
    /\ mt_in' = [mt_in EXCEPT !.results = ResultsAfterMatch(@)]
    /\ OnlyMatch

(***************************************************************************)
(* The steps that read and match: padre_response (lines 510-517) and       *)
(* padre_called_with (lines 409-424), on what their read returned          *)
(***************************************************************************)
\* the step without its count of the messages read
padre_response_any_count(results, number, response) ==
    check_response_in(results, number, response)

\* lines 516-517: results is future.result(), number is
\* context.padre.last_request_number
padre_response(results, number, response) ==
    IF Len(results) # 1 THEN "AssertionError: Got one response"
    ELSE check_response_in(results, number, response)

\* a row of context.table: a function name and the JSON text of its arguments
Row(function, args) == [function |-> function, args |-> args]

RECURSIVE RowsLoop(_, _, _)
\* lines 423-424: every row is looked up in the whole of results
RowsLoop(results, rows, k) ==
    IF k > Len(rows) THEN "pass"
    ELSE LET r == check_calls_in(results, rows[k].function, rows[k].args) IN
         IF r # "pass" THEN r ELSE RowsLoop(results, rows, k + 1)

\* lines 418-424: results is what read_results returned
padre_called_with(results, rows) ==
    IF Len(results) # Len(rows)
    THEN "AssertionError: Padre called with expected number of results"
    ELSE RowsLoop(results, rows, 1)

\* the input of a step: what its read returned, and its table (in args)
StepInput(op, results, rows, number, expected) ==
    MatchInput(op, results, << >>, rows, number, VNull, expected)

Rows == {Row(FnF, <<VInt(4)>>), Row(FnG, <<VInt(4)>>)}

StepMessages ==
    {Notification(FnF, <<VInt(4)>>), Notification(FnF, <<VInt(5)>>),
     Notification(FnG, <<VInt(4)>>), Response(1, BodyOK), Response(2, BodyOK)}

ResponseStepInputs ==
    {StepInput("padre_response", r, << >>, Some(1), e) :
         r \in SeqsUpTo(StepMessages \cup {Response(1, VDict(<< >>))}, MaxResults),
         e \in {BodyOK}}

CalledWithStepInputs ==
    {StepInput("padre_called_with", r, t, None, VNull) :
         r \in SeqsUpTo(StepMessages, MaxResults),
         t \in SeqsUpTo(Rows, MaxRows) \ {<< >>}}

PadreResponse ==
    /\ mt_in.op = "padre_response"
    /\ mt_out = "none"
    /\ mt_out' = padre_response(mt_in.results, mt_in.number, mt_in.expected)
    /\ mt_in' = [mt_in EXCEPT !.results = ResultsAfterMatch(@)]
    /\ OnlyMatch

PadreCalledWith ==
    /\ mt_in.op = "padre_called_with"
    /\ mt_out = "none"
    /\ mt_out' = padre_called_with(mt_in.results, mt_in.args)
    /\ mt_in' = [mt_in EXCEPT !.results = ResultsAfterMatch(@)]
    /\ OnlyMatch

InitSteps ==
    /\ InitHarness /\ NoStream /\ InitPerf /\ InitRead /\ InitPoll /\ InitTools /\ InitScenario /\ InitTrack
    /\ mt_in \in ResponseStepInputs \cup CalledWithStepInputs
    /\ mt_out = "none"

NextSteps ==
    \/ PadreResponse
    \/ PadreCalledWith

SpecSteps == InitSteps /\ [][NextSteps]_vars

(***************************************************************************)
(* The sockets of the connections of a session, and the step "I receive a  *)
(* response ... on connection N" reading from one of them                  *)
(***************************************************************************)
\* a read that takes what every connection has buffered
AfterReadEmptiesAll(buffers, c) == [d \in DOMAIN buffers |-> << >>]

\* line 150 on the reader context.connections[N][0] (line 515): the read
\* takes what that connection's StreamReader has buffered
AfterRead(buffers, c) == [buffers EXCEPT ![c] = << >>]

ServerMessages == {Response(1, BodyOK), Notification(FnF, << >>)}

RECURSIVE Written(_)
\* the number of messages the server wrote to the connections 1..n
Written(n) ==
    IF n = 0 THEN 0 ELSE Len(inbox[n]) + Len(handed[n]) + Written(n - 1)

\* the server writes a message to the socket of connection c
ServerWrites(c, msg) ==
    /\ pc \notin {"failed", "ended"}
    /\ Listening
    /\ c \in 1..n_conns
    /\ Written(n_conns) < MaxMsgs
    /\ inbox' = [inbox EXCEPT ![c] = Append(@, msg)]
    /\ UNCHANGED <<vars_decode, vars_harness, vars_match, vars_perf, vars_read,
                   vars_poll, vars_tools, vars_track, vars_drain, vars_fixture, handed>>

\* padre_response, lines 510-517, with get_response, lines 492-507: one read
\* of the connection at the index given, then the match of what it returned
PadreResponseOn(connection) ==
    /\ pc = "idle"
    /\ IF connections = None
       THEN /\ pc' = "failed"
            /\ step_error' = "AttributeError"
            /\ UNCHANGED vars_conn
       ELSE IF connection >= Len(connections[1])
       THEN /\ pc' = "failed"
            /\ step_error' = "IndexError"
            /\ UNCHANGED vars_conn
       ELSE LET c == connections[1][connection + 1] IN
            IF inbox[c] = << >>
            THEN /\ pc' = "failed"
                 /\ step_error' = "TimeoutError"
                 /\ UNCHANGED vars_conn
            ELSE /\ inbox' = AfterRead(inbox, c)
                 /\ handed' = [handed EXCEPT ![c] = Delivered(@, inbox[c])]
                 /\ LET r == padre_response(inbox[c], last_request_number, BodyOK) IN
                        IF r = "pass"
                        THEN UNCHANGED <<pc, step_error>>
                        ELSE pc' = "failed" /\ step_error' = r
    /\ UNCHANGED <<vars_decode, vars_match, vars_perf, vars_read, vars_poll, vars_tools, vars_track>>
    /\ UNCHANGED <<vars_drain, vars_fixture>>
    /\ UNCHANGED <<pd_pid, request_counter, last_request_number, children,
                   connections, n_conns, waited, run_future, last_query, procs,
                   os_desc, wire, issued, lifecycle>>

\* a matching function is called on one of the inputs
InitMatch ==
    /\ InitHarness /\ NoStream /\ InitPerf /\ InitRead /\ InitPoll /\ InitTools /\ InitScenario /\ InitTrack
    /\ mt_in \in CallsInputs \cup ResponseInputs \cup JsonInputs
    /\ mt_out = "none"

NextMatch ==
    \/ CheckCallsIn
    \/ CheckResponseIn
    \/ CheckJson

SpecMatch == InitMatch /\ [][NextMatch]_vars

\* a session started, interrupted and checked for what it left behind
NextNotRunning ==
    \/ RunPadreSpawn
    \/ \E p \in 1..Len(procs) : ProcPrintsLine(p, "ok")
    \/ PadreDebuggerStarted
    \/ TerminateProgram
    \/ TerminateWaitReturns
    \/ \E p \in 1..Len(procs), code \in ExitCodes : ProcExits(p, code)
    \/ \E p \in 1..Len(procs) : ProcReaped(p)
    \/ \E p \in 1..Len(procs) : DebuggeeSpawns(p)
    \/ \E d \in os_desc : DebuggeeExits(d)
    \/ NotRunningBegin
    \/ Poll
    \/ PollEnds
    \/ CheckPids

SpecNotRunning == Init /\ [][NextNotRunning]_vars

\* a session whose server spawns debuggees while requests are sent
NextTracking ==
    \/ RunPadreSpawn
    \/ \E p \in 1..Len(procs) : ProcPrintsLine(p, "ok")
    \/ PadreDebuggerStarted
    \/ \E c \in 0..(MaxConns - 1) : PadreRequestRaw(c)
    \/ \E p \in 1..Len(procs), code \in ExitCodes : ProcExits(p, code)
    \/ \E p \in 1..Len(procs) : ProcReaped(p)
    \/ \E p \in 1..Len(procs) : DebuggeeSpawns(p)
    \/ \E d \in os_desc : DebuggeeExits(d)

SpecTracking == Init /\ [][NextTracking]_vars

\* a session whose server spawns debuggees while requests and terminal
\* commands are sent
NextTerminal ==
    \/ RunPadreSpawn
    \/ \E p \in 1..Len(procs) : ProcPrintsLine(p, "ok")
    \/ PadreDebuggerStarted
    \/ \E c \in 0..(MaxConns - 1) : PadreRequestRaw(c)
    \/ SendTerminalCommand
    \/ \E p \in 1..Len(procs) : DebuggeeSpawns(p)

SpecTerminal == Init /\ [][NextTerminal]_vars

\* a session in which two callers run get_children at the same time
NextTrackRace ==
    \/ RunPadreSpawn
    \/ \E p \in 1..Len(procs) : ProcPrintsLine(p, "ok")
    \/ PadreDebuggerStarted
    \/ \E p \in 1..Len(procs) : DebuggeeSpawns(p)
    \/ \E d \in os_desc : DebuggeeExits(d)
    \/ \E c \in Callers : GetChildrenRead(c)
    \/ \E c \in Callers : GetChildrenObserve(c)
    \/ \E c \in Callers : GetChildrenWrite(c)

SpecTrackRace == Init /\ [][NextTrackRace]_vars

\* the start of a session, and the server started
NextStartup ==
    \/ RunPadreSpawn
    \/ RunPadreTimer
    \/ RunPadreLateBanner
    \/ RunPadreBadBanner
    \/ PadreDebuggerStarted
    \/ Tick
    \/ \E p \in 1..Len(procs), line \in {"ok", "bad"} : ProcPrintsLine(p, line)
    \/ \E p \in 1..Len(procs), code \in ExitCodes : ProcExits(p, code)
    \/ \E p \in 1..Len(procs) : ProcReaped(p)

SpecStartup == Init /\ [][NextStartup]_vars

\* a session with several connections: requests, the server's messages, reads
NextConns ==
    \/ RunPadreSpawn
    \/ \E p \in 1..Len(procs) : ProcPrintsLine(p, "ok")
    \/ PadreDebuggerStarted
    \/ ConnectPadre
    \/ \E c \in 0..(MaxConns - 1) : PadreRequest(c)
    \/ \E c \in 1..MaxConns, msg \in ServerMessages : ServerWrites(c, msg)
    \/ \E c \in 0..(MaxConns - 1) : PadreResponseOn(c)

SpecConns == Init /\ [][NextConns]_vars

\* a session that starts, sleeps and is interrupted, and its server's stdout
NextDrain ==
    \/ RunPadreSpawn
    \/ \E p \in 1..Len(procs) : ProcPrintsLine(p, "ok")
    \/ PadreDebuggerStarted
    \/ SleepBegin
    \/ SleepEnd
    \/ TerminateProgram
    \/ TerminateWaitReturns
    \/ ServerPrints
    \/ DrainLine
    \/ DrainEmpty
    \/ \E p \in 1..Len(procs), code \in ExitCodes : ProcExits(p, code)
    \/ \E p \in 1..Len(procs) : ProcReaped(p)

SpecDrain == Init /\ [][NextDrain]_vars

\* a session whose server spawns debuggees while requests are sent, and
\* which is then interrupted
NextShutdown ==
    \/ RunPadreSpawn
    \/ \E p \in 1..Len(procs) : ProcPrintsLine(p, "ok")
    \/ PadreDebuggerStarted
    \/ \E c \in 0..(MaxConns - 1) : PadreRequestRaw(c)
    \/ TerminateProgram
    \/ TerminateWaitReturns
    \/ \E p \in 1..Len(procs), code \in ExitCodes : ProcExits(p, code)
    \/ \E p \in 1..Len(procs) : ProcReaped(p)
    \/ \E p \in 1..Len(procs) : DebuggeeSpawns(p)
    \/ \E d \in os_desc : DebuggeeExits(d)

SpecShutdown == Init /\ [][NextShutdown]_vars

\* startup of a session, and the end of the scenario
NextTeardown ==
    \/ RunPadreSpawn
    \/ RunPadreTimer
    \/ RunPadreLateBanner
    \/ RunPadreBadBanner
    \/ PadreDebuggerStarted
    \/ Tick
    \/ \E p \in 1..Len(procs), line \in {"ok", "bad"} : ProcPrintsLine(p, line)
    \/ \E p \in 1..Len(procs), code \in ExitCodes : ProcExits(p, code)
    \/ \E p \in 1..Len(procs) : ProcReaped(p)
    \/ Teardown

SpecTeardown == Init /\ [][NextTeardown]_vars

SpecDecode == InitStream /\ [][NextDecode]_vars

\* every value the peer wrote is a protocol message: a JSON array
AllMessages == \A k \in 1..Len(peer_vals) : peer_vals[k][1] = "["

\* the whole text arrived in one segment and one read has returned or raised
OneReadOfAll == nsegs = 1 /\ nreads = 1 /\ net = << >>

\* C1: when a valid message is split at a point inside it and the two parts
\* arrive in two reads of the same connection, the first read raises no
\* error, and once both parts were read the connection has delivered what
\* one read of the unsplit text delivers.
C1_SplitReadEqualsSingleRead ==
    AllMessages =>
        /\ rd_err = "none"
        /\ (net = << >> /\ rbuf = << >>) => out = DecodeLine(peer_text).results

\* C2 as stated: N valid JSON values, concatenated with zero or more
\* whitespace characters around them and read in one read, decode to
\* exactly those N values in order.
C2_OneReadYieldsEveryValue ==
    OneReadOfAll => rd_err = "none" /\ out = peer_vals

\* a number directly followed, with no whitespace, by a value that begins
\* with a digit
DigitRunsMerge ==
    /\ peer_gap = << >>
    /\ \E k \in 1..(Len(peer_vals) - 1) :
           /\ peer_vals[k][Len(peer_vals[k])] \in Digits
           /\ peer_vals[k + 1][1] \in Digits

\* C2 (amended): the same, provided no number is directly followed, with no
\* whitespace between them, by a value beginning with a digit: one decode
\* pass yields exactly the N values, in order, and no whitespace.
C2_OneReadYieldsDelimitedValues ==
    (OneReadOfAll /\ ~DigitRunsMerge) => rd_err = "none" /\ out = peer_vals

\* scenario E was read in one read and gave its two messages
C2_Witness ==
    /\ OneReadOfAll
    /\ peer_text = ScenarioE
    /\ out = <<CallF, RespTwoOK>>

\* the counter-issued requests on the wire, in the order they were sent
CountedWire == SelectSeq(wire, LAMBDA e : e.counted)

\* C3: the numbers a session issues are 1, 2, 3, ... in that order, the
\* last-issued number is the one most recently returned, and every request
\* put on the wire carries the number issued for it; the same holds for the
\* numbers a perf-test PadreConnection returns and sends.
C3_RequestNumbersCountFromOne ==
    /\ \A k \in 1..Len(issued) : issued[k] = k
    /\ issued # << >> => last_request_number = Some(issued[Len(issued)])
    /\ Len(CountedWire) <= Len(issued)
    /\ pc # "failed" => Len(CountedWire) = Len(issued)
    /\ \A k \in 1..Len(CountedWire) : WireNum(CountedWire[k].text) = issued[k]
    /\ Len(perf_wire) = Len(perf_ret)
    /\ \A k \in 1..Len(perf_ret) :
           perf_ret[k] = k /\ WireNum(perf_wire[k]) = perf_ret[k]

\* the session and the perf connection have each issued two numbers and sent
\* two requests
C3_Witness ==
    /\ Len(issued) = 2
    /\ Len(CountedWire) = 2
    /\ last_request_number = Some(2)
    /\ Len(perf_ret) = 2

\* C4: whatever connections the requests of a session went out on, two
\* counter-issued requests never carry the same number, and a request sent
\* later carries a larger number.
C4_NoNumberReusedAcrossConnections ==
    \A i, j \in 1..Len(wire) :
        (i < j /\ wire[i].counted /\ wire[j].counted)
            => WireNum(wire[i].text) < WireNum(wire[j].text)

\* two counter-issued requests went out on two connections, the first of
\* which has been closed since
C4_Witness ==
    /\ Len(wire) = 2
    /\ wire[1].counted /\ wire[2].counted
    /\ wire[1].conn # wire[2].conn
    /\ connections = Some(<<wire[2].conn>>)

\* C5: a read of the last request number in a session that has issued no
\* request does not return: whenever the read has returned, it returned a
\* number that was issued.
C5_LastRequestNumberNeedsIssuance ==
    last_query # None => last_query[1] # None /\ issued # << >>

\* read_results has returned or raised
ReadFinished == rr_pc \in {"returned", "raised"}

\* the exceptions by which a read that ran out of time ends
TimeoutKinds == {"Exception", "TimeoutError"}

\* C6: a read of messages that has collected the expected number of
\* messages ends by returning, never with a timeout; one that ends with a
\* timeout has collected fewer, its deadline having passed.
C6_CountReachedMeansReturn ==
    ReadFinished =>
        /\ Len(rr_results) >= expected_results => outcome.kind = "return"
        /\ outcome.kind \in TimeoutKinds => now >= rr_timeout

\* C7: a read of messages that ends with a timeout before the expected
\* number was decoded hands the caller the messages decoded so far.
C7_TimeoutCarriesPartialResults ==
    (ReadFinished /\ outcome.kind \in TimeoutKinds
                  /\ Len(decoded) < expected_results)
        => outcome.value = decoded

\* C8: no socket read of a read-messages operation is suspended after the
\* deadline of the operation has passed.
C8_NoReadPastTheDeadline ==
    rr_pc = "reading" => now <= rr_timeout

\* C9: the wait for the exit of the interrupted process, and the wait for
\* the banner line, do not last beyond the timeout.
C9_WaitsEndByTheTimeout ==
    pc \in {"wait_exit", "wait_banner"} => waited <= TIMEOUT

\* the place of a supervisor state in NotStarted, Starting, Running,
\* Terminating, Terminated
Rank(state) ==
    CASE state = "NotStarted" -> 0
      [] state = "Starting" -> 1
      [] state = "Running" -> 2
      [] state = "Terminating" -> 3
      [] state = "Terminated" -> 4

\* the processes that have been sent the interrupt signal
Interrupted == {p \in 1..Len(procs) : procs[p].sigint}

\* C10: every step leaves the supervisor state where it is or moves it
\* forward; a step that opens a connection or sends a request ends in
\* Running or later; a step that sends the interrupt signal starts in
\* Running.
C10_LifecycleOnlyForward ==
    [][/\ Rank(lifecycle') >= Rank(lifecycle)
       /\ (n_conns' # n_conns \/ wire' # wire) => Rank(lifecycle') >= Rank("Running")
       /\ Interrupted' # Interrupted => lifecycle = "Running"]_vars

\* the step waiting for the banner ends
StartupStepEnds == pc = "wait_banner" /\ pc' # "wait_banner"

\* C11: a start of the session reaches Running only on a first line equal
\* to the banner of the session's port; when the first line is anything
\* else the start fails, no connection list is created, no connection is
\* opened, and the process is not signalled or otherwise touched.
C11_StartupNeedsTheBanner ==
    [][StartupStepEnds =>
          IF BannerLine(pd_pid[1]) = "ok"
          THEN pc' = "failed" \/ lifecycle' = "Running"
          ELSE /\ pc' = "failed"
               /\ lifecycle' = "Starting"
               /\ connections' = connections
               /\ n_conns' = n_conns
               /\ procs' = procs]_vars

\* the start failed on another first line; the server is alive, not
\* signalled, and there is no connection list
C11_Witness ==
    /\ pc = "failed"
    /\ step_error = "AssertionError"
    /\ procs[pd_pid[1]].banner = "bad"
    /\ Alive(pd_pid[1])
    /\ ~procs[pd_pid[1]].sigint
    /\ connections = None
    /\ lifecycle = "Starting"

\* C12: the check "padre is not running" passes exactly when the exit code
\* it polled is 0 and neither the server's pid nor a tracked descendant is
\* among the live pids; it gives up on the exit code after 50 polls.
C12_NotRunningIffExitedCleanly ==
    [][/\ polls' <= 50
       /\ (pc = "polling" /\ pc' = "settle") => ReturnCode(pd_pid[1]) = Some(0)
       /\ (pc = "polling" /\ pc' = "failed") =>
              ReturnCode(pd_pid[1]) # Some(0) /\ polls = 50
       /\ (pc = "settle" /\ pc' # "settle") =>
              /\ pc' \in {"idle", "failed"}
              /\ not_running' = "passed" <=> pc' = "idle"
              /\ pc' = "idle" <=>
                     /\ pd_pid[1] \notin LivePids
                     /\ \A child \in children : child \notin LiveDesc
       /\ not_running' = "passed" =>
              pc = "settle" \/ not_running = "passed"]_vars

\* the check passed for a server that had a tracked descendant
C12_Witness ==
    /\ not_running = "passed"
    /\ children # {}
    /\ procs[pd_pid[1]].sigint

\* C13: every step leaves in the tracked set what was in it, processes
\* that have exited included; a step adds nothing but descendants of the
\* server that are alive at the step, and adds nothing when those are in
\* the set already.
C13_TrackedSetOnlyGrows ==
    [][/\ children \subseteq children'
       /\ IF pd_pid = None THEN children' = children
          ELSE /\ children' \subseteq children \cup Descendants(pd_pid[1])
               /\ Descendants(pd_pid[1]) \subseteq children => children' = children]_vars

\* a request was sent, with its tracking call, while the set held a
\* descendant that was no longer alive
C13_Witness ==
    /\ \E child \in children : child \notin LiveDesc
    /\ Len(wire) = MaxRequests
    /\ pc = "idle"

\* C14: when two calls of the tracking have both ended, whatever their
\* steps' order, the tracked set holds what each of them observed.
C14_NoObservationLost ==
    (\A c \in Callers : tk_pc[c] = "done") =>
        \A c \in Callers : tk_read[c] \cup tk_obs[c] \subseteq children

\* a step that sends a request, sends a terminal command or starts the
\* session has ended without raising
TrackedStepEnds ==
    /\ pc' = "idle"
    /\ \/ wire' # wire
       \/ stdin_cmds' # stdin_cmds
       \/ pc = "wait_banner"

\* C15: when the start of the session, a request or a terminal command
\* ends, the descendants the server then has are in the tracked set.
C15_TrackingAfterEverySend ==
    [][TrackedStepEnds => Descendants(pd_pid[1]) \subseteq children']_vars

\* the function op was called and has returned or raised
Called(op) == mt_in.op = op /\ mt_out # "none"

\* the shape ["call", name, args]
IsNotification(x) ==
    /\ x.t = "list" /\ Len(x.items) = 3
    /\ EqStr(x.items[1], Call) /\ x.items[2].t = "str" /\ x.items[3].t = "list"

\* the shape [integer, body]
IsResponse(x) == x.t = "list" /\ Len(x.items) = 2 /\ x.items[1].t = "int"

\* the expected arguments are satisfied, position by position
ArgsSatisfied(args, actual) ==
    /\ Len(actual) >= Len(args)
    /\ \A i \in 1..Len(args) :
           args[i].t = "dict" \/ ReMatch(Str(args[i]), Str(actual[i]))

\* C16: matching of notifications passes exactly when some notification has
\* the expected function name and satisfies every expected argument at its
\* position (a notification with fewer arguments does not); otherwise it
\* fails by an assertion, a notification with more arguments raising no
\* other error.
C16_CallMatchesIffArgsSatisfied ==
    Called("check_calls_in") =>
        /\ mt_out \in {"pass", "AssertionError"}
        /\ mt_out = "pass" <=>
               \E k \in 1..Len(mt_in.results) :
                   /\ IsNotification(mt_in.results[k])
                   /\ mt_in.results[k].items[2].s = mt_in.function
                   /\ ArgsSatisfied(mt_in.args, mt_in.results[k].items[3].items)

\* the messages of the list that are responses to the request number
MatchingResponses ==
    {k \in 1..Len(mt_in.results) :
         IsResponse(mt_in.results[k]) /\ mt_in.results[k].items[1].n = mt_in.number[1]}

\* C17: on a list of notifications and responses, matching of a response
\* fails with the count mismatch exactly when the number of responses to
\* the request number is not one; notifications and responses to other
\* numbers do not count.
C17_ExactlyOneResponse ==
    (/\ Called("check_response_in")
     /\ \A k \in 1..Len(mt_in.results) :
            IsNotification(mt_in.results[k]) \/ IsResponse(mt_in.results[k]))
        => (mt_out = "AssertionError: Got 1 response"
                <=> Cardinality(MatchingResponses) # 1)

\* a response to another request number and the response to this one: the
\* match passes
C17_Witness ==
    /\ Called("check_response_in")
    /\ mt_in.results = <<Response(2, BodyOK), Response(1, BodyOK)>>
    /\ mt_out = "pass"

\* C18: a body with one integer leaf matches an expected body with an
\* integer at the same key exactly when the two integers are equal.
C18_IntegerLeavesCompareByEquality ==
    (/\ Called("check_json")
     /\ Len(mt_in.actual.items) = 1 /\ Len(mt_in.expected.items) = 1
     /\ mt_in.actual.items[1].s = mt_in.expected.items[1].s
     /\ mt_in.actual.items[1].items[1].t = "int"
     /\ mt_in.expected.items[1].items[1].t = "int")
        => (mt_out = "pass"
                <=> mt_in.actual.items[1].items[1].n = mt_in.expected.items[1].items[1].n)

RECURSIVE SameKeysDeep(_, _)
\* the two bodies have the same keys at every level
SameKeysDeep(actual, expected) ==
    /\ actual.t = "dict" /\ expected.t = "dict"
    /\ Keys(actual) = Keys(expected)
    /\ \A key \in Keys(actual) :
           /\ (Get(actual, key).t = "dict") = (Get(expected, key).t = "dict")
           /\ Get(actual, key).t = "dict" => SameKeysDeep(Get(actual, key), Get(expected, key))

BodyMismatches ==
    {"AssertionError: Got correct keys in response",
     "AssertionError: Response regexp matches", "AssertionError: Integers match"}

\* C19: matching of a body passes only if the two bodies have the same keys
\* at every level, and when they have not it fails by an assertion.
C19_KeySetsEqualAtEveryLevel ==
    Called("check_json") =>
        /\ mt_out = "pass" => SameKeysDeep(mt_in.actual, mt_in.expected)
        /\ ~SameKeysDeep(mt_in.actual, mt_in.expected) => mt_out \in BodyMismatches

\* C20: matching of a response on a list that holds a value of neither
\* shape does not pass.
C20_OtherShapesFail ==
    (/\ Called("check_response_in")
     /\ \E k \in 1..Len(mt_in.results) :
            ~IsNotification(mt_in.results[k]) /\ ~IsResponse(mt_in.results[k]))
        => mt_out # "pass"

\* the malformed text the peer wrote after its valid values
PeerBad ==
    SubSeq(peer_text, Len(peer_gap \o Join(peer_vals, peer_gap)) + 1,
           Len(peer_text))

\* a read raises, and the text it read runs to the end of what the peer wrote
RaisesOnTheRest ==
    /\ rd_err = "none" /\ rd_err' # "none"
    /\ net = << >> /\ Len(rbuf) <= CHUNK /\ Len(rbuf) >= Len(PeerBad)

\* C21: a read whose text contains a malformed JSON value raises an error
\* that names the offset in the text read at which the malformed value
\* starts and the text from that offset on; the read adds nothing to what
\* the connection delivered, and once raised the error stays as it is and
\* no later read delivers anything.
C21_MalformedValueFailsTheRead ==
    [][/\ RaisesOnTheRest =>
            /\ rd_msg' = Some([idx |-> Len(rbuf) - Len(PeerBad), rest |-> PeerBad])
            /\ out' = out
       /\ rd_err # "none" => UNCHANGED <<rd_err, rd_msg, out>>]_vars

\* a response and then a malformed array were read in one read, which raised
\* naming the offset after the response
C21_Witness ==
    /\ peer_text = RespOne \o BadComma
    /\ nsegs = 1
    /\ rd_err = "ValueError"
    /\ rd_msg = Some([idx |-> Len(RespOne), rest |-> BadComma])
    /\ out = << >>

\* the orders in which the messages of q can arrive
Orders(q) ==
    {[i \in 1..Len(q) |-> q[f[i]]] :
        f \in {g \in [1..Len(q) -> 1..Len(q)] :
                  \A i, j \in 1..Len(q) : g[i] = g[j] => i = j}}

\* every message of the list matched has one of the two shapes
AllWellFormed ==
    \A k \in 1..Len(mt_in.results) :
        IsNotification(mt_in.results[k]) \/ IsResponse(mt_in.results[k])

\* C22: on a list of notifications and responses, the outcome of matching a
\* notification and of matching a response is the same for every order of
\* the messages of the list.
C22_OutcomeIndependentOfOrder ==
    AllWellFormed =>
        /\ Called("check_calls_in") =>
               \A q \in Orders(mt_in.results) :
                   check_calls_in(q, mt_in.function, mt_in.args) = mt_out
        /\ Called("check_response_in") =>
               \A q \in Orders(mt_in.results) :
                   check_response_in(q, mt_in.number, mt_in.expected) = mt_out

RowMatches(row, x) ==
    /\ IsNotification(x)
    /\ x.items[2].s = row.function
    /\ ArgsSatisfied(row.args, x.items[3].items)

\* C24: a step with N rows passes only if N distinct messages among those
\* received are notifications matching the rows, one for each row.
C24_EachRowHasItsOwnNotification ==
    (Called("padre_called_with") /\ mt_out = "pass") =>
        \E f \in [1..Len(mt_in.args) -> 1..Len(mt_in.results)] :
            /\ \A i, j \in 1..Len(mt_in.args) : f[i] = f[j] => i = j
            /\ \A i \in 1..Len(mt_in.args) :
                   RowMatches(mt_in.args[i], mt_in.results[f[i]])

\* q is p, or p with elements left off its end
IsPrefix(q, p) == Len(q) <= Len(p) /\ q = SubSeq(p, 1, Len(q))

\* C25: whatever the grouping of the peer's messages into arrivals and
\* reads, the result lists the reads of a connection returned, one after the
\* other, form a prefix of the sequence of messages the peer wrote.
C25_DeliveredIsPrefixOfWritten ==
    AllMessages => IsPrefix(out, peer_vals)

\* two different messages arrived apart and two reads returned them in the
\* order written
C25_Witness ==
    /\ peer_vals = <<RespOne, CallF>>
    /\ nsegs = 2 /\ nreads = 2
    /\ out = <<RespOne, CallF>>

\* a step took a connection out of context.connections
ConnectionClosed ==
    /\ connections # None /\ connections' # None
    /\ Len(connections'[1]) < Len(connections[1])

\* C27: closing connection i leaves every other index referring to the
\* connection it referred to before, so that closing i once more finds no
\* other connection to close.
C27_CloseLeavesOtherIndicesAlone ==
    [][ConnectionClosed =>
           \E i \in 1..Len(connections[1]) :
               \A j \in (1..Len(connections[1])) \ {i} :
                   /\ j <= Len(connections'[1])
                   /\ connections'[1][j] = connections[1][j]]_vars

\* what the matching function named in the input gives on that input
MatchOutcome(in) ==
    CASE in.op = "check_calls_in" -> check_calls_in(in.results, in.function, in.args)
      [] in.op = "check_response_in" -> check_response_in(in.results, in.number, in.expected)
      [] OTHER -> check_json(in.actual, in.expected)

C30_TeardownSignalsEveryLaunchedProcess ==
    pc = "ended" => \A p \in 1..Len(procs) : Alive(p) => p \in sigterm

\* C28: while the drain task has not ended, a line waiting in the server's
\* stdout pipe can be taken by the task whatever the main flow is doing,
\* sleeping and being between steps included; and the task ends only when
\* the pipe is empty and the server has exited.
C28_DrainRunsWhateverTheMainFlowDoes ==
    /\ [](drain = "running" /\ pipe # << >> => ENABLED DrainLine)
    /\ [][drain # "ended" /\ drain' = "ended" =>
             pipe = << >> /\ ~Alive(pd_pid[1])]_vars

\* the step taken read from connection c or sent a request on it
ActedOn(c) ==
    \/ handed'[c] # handed[c]
    \/ Len(wire') > Len(wire) /\ wire'[Len(wire')].conn = c

\* C26: a step that reads from or sends on one connection leaves what is
\* pending on every other connection, and what was read from it, as it was.
C26_StepsOnOneConnectionLeaveTheOthers ==
    [][\A c, d \in 1..MaxConns :
           (c # d /\ ActedOn(c)) =>
               inbox'[d] = inbox[d] /\ handed'[d] = handed[d]]_vars

\* a response was read from the first connection while a message was, and
\* still is, pending on the second
C26_Witness ==
    /\ handed[1] = <<Response(1, BodyOK)>>
    /\ inbox[2] # << >>
    /\ pc = "idle"

\* C35: when the interrupt signal is sent to the server, every descendant of
\* the server that is alive is in the tracked set, whenever the server
\* spawned it.
C35_DescendantsTrackedAtInterrupt ==
    [][\A p \in 1..Len(procs) :
           (~procs[p].sigint /\ procs'[p].sigint) =>
               Descendants(p) \subseteq children]_vars

\* C34: under every interleaving of the arrival of data, the timers that
\* cancel futures and the timeout of the read, set_result is not called on
\* a future that was cancelled: no read ends with InvalidStateError, and a
\* timer left from a read that completed does not fail a later read.
C34_NoSetResultOnCancelledFuture ==
    outcome.kind # "InvalidStateError"

(***************************************************************************)
(* The count of the messages read, in the steps that expect N messages:    *)
(* padre_called_with (lines 418-422) and padre_response_and_code_jump      *)
(* (lines 550-554), on what read_results returned                          *)
(***************************************************************************)
\* a step that does not count the messages
expected_number_any(results, num_expected_results) == "none"

\* assert_that(len(results), equal_to(num_expected_results), ...)
expected_number(results, num_expected_results) ==
    IF Len(results) # num_expected_results THEN "AssertionError" ELSE "none"

\* lines 414-422 after read_results returned: the list is counted
ExpectedNumber ==
    /\ rr_pc = "returned"
    /\ rr_pc' = "counted"
    /\ step_error' = expected_number(outcome.value, expected_results)
    /\ UNCHANGED <<now, expected_results, rr_results, rr_timeout, futs, timers,
                   wf_deadline, sock, peer_sent, outcome, decoded>>
    /\ UNCHANGED <<pd_pid, request_counter, last_request_number, children,
                   connections, n_conns, pc, waited, run_future, last_query,
                   procs, os_desc, wire, issued, lifecycle>>
    /\ UNCHANGED <<vars_decode, vars_match, vars_perf, vars_poll, vars_tools,
                   vars_scenario, vars_track>>

NextCount ==
    \/ NextRead
    \/ ExpectedNumber

SpecCount == Init /\ [][NextCount]_vars

\* C33: a step that expects N messages passes its count only if the reads
\* of the loop took N messages in all from the socket; when the reads took
\* more than N (one read delivered more than was still needed) the step
\* fails, and every message taken from the socket is in the list the loop
\* returned to the step, so none is left for a later read.
C33_ExactlyTheExpectedNumber ==
    rr_pc = "counted" =>
        /\ step_error = "none" => Len(decoded) = expected_results
        /\ Len(decoded) > expected_results => step_error = "AssertionError"
        /\ outcome.value = decoded

C33_Witness ==
    /\ rr_pc = "counted"
    /\ Len(decoded) > expected_results
    /\ step_error = "AssertionError"

(***************************************************************************)
(* pythonx/buffers.py: the writes of a Buffer on the lines of its VIM      *)
(* buffer.  A line is a sequence of characters; a text is a string or a    *)
(* list of strings, kept as the list of its lines with its type.           *)
(***************************************************************************)
MaxLines == 2       \* most lines of the buffer
MaxLineLen == 1     \* most characters of a line of the buffer

NL == "\n"

StrText(s) == [kind |-> "str", v |-> <<s>>]
ListText(l) == [kind |-> "list", v |-> l]

\* a line argument: an integer, or "$" with an integer added
LineArg(dollar, off) == [dollar |-> dollar, off |-> off]

\* lines 173-174: "$" is replaced by the length and the text is evaluated
LineValue(line_num, length) ==
    IF line_num.dollar THEN length + line_num.off ELSE line_num.off

\* the expansion without the test of the length
expand_line_any_length(line_num, length) == Some(LineValue(line_num, length))

\* lines 172-180: None stands for raise BufferWriteException()
expand_line(line_num, length) ==
    IF LineValue(line_num, length) > length THEN None
    ELSE Some(LineValue(line_num, length))

HasNewline(text) ==
    \E i \in 1..Len(text.v) : \E j \in 1..Len(text.v[i]) : text.v[i][j] = NL

Edited(raised, lines) == [raised |-> raised, lines |-> lines]

\* edit_buffer[n - 1] = text of the vim module: the value is one string
\* without a newline and the line exists
ItemAssign(lines, n, text) ==
    IF text.kind # "str" THEN Edited("TypeError", lines)
    ELSE IF n \notin 1..Len(lines) THEN Edited("IndexError", lines)
    ELSE IF HasNewline(text) THEN Edited("vim.error", lines)
    ELSE Edited("none", [lines EXCEPT ![n] = text.v[1]])

Clamp(x, lo, hi) == IF x < lo THEN lo ELSE IF x > hi THEN hi ELSE x

\* edit_buffer[lo:hi] = text of the vim module: the value is a list of
\* strings without newlines, the bounds are cut to the buffer
SliceAssign(lines, lo, hi, text) ==
    IF text.kind # "list" THEN Edited("TypeError", lines)
    ELSE IF HasNewline(text) THEN Edited("vim.error", lines)
    ELSE LET a == Clamp(lo, 0, Len(lines))
             b == Clamp(hi, a, Len(lines))
         IN  Edited("none", SubSeq(lines, 1, a) \o text.v
                                \o SubSeq(lines, b + 1, Len(lines)))

\* lines 196-204
edit_function_replace_lines(lines, line_from, line_to, text) ==
    IF line_from = line_to THEN ItemAssign(lines, line_from, text)
    ELSE SliceAssign(lines, line_from - 1, line_to - 1, text)

\* lines 206-213
edit_function_prepend_lines(lines, line_from, line_to, text) ==
    IF line_from # line_to THEN Edited("BufferWriteException", lines)
    ELSE SliceAssign(lines, line_from - 1, line_from - 1, text)

\* lines 215-222
edit_function_append_lines(lines, line_from, line_to, text) ==
    IF line_from # line_to THEN Edited("BufferWriteException", lines)
    ELSE SliceAssign(lines, line_to, line_to, text)

\* the call edit_fn(line_from, line_to, text) of line 191, edit_fn being one
\* of the three bound methods
CallEdit(edit_fn, lines, line_from, line_to, text) ==
    CASE edit_fn = "_edit_function_replace_lines" ->
             edit_function_replace_lines(lines, line_from, line_to, text)
      [] edit_fn = "_edit_function_prepend_lines" ->
             edit_function_prepend_lines(lines, line_from, line_to, text)
      [] edit_fn = "_edit_function_append_lines" ->
             edit_function_append_lines(lines, line_from, line_to, text)

Wrote(raised, lines, option) ==
    [raised |-> raised, lines |-> lines, modifiable |-> option]

\* lines 182-194: the option is set before the edit (lines 188-189) and set
\* back after it (lines 193-194); an edit that raises leaves the function at
\* line 191
do_write_buffer(lines, was_modifiable, line_from, line_to, text, edit_fn) ==
    LET e == CallEdit(edit_fn, lines, line_from, line_to, text) IN
    IF e.raised # "none" THEN Wrote(e.raised, lines, TRUE)
    ELSE Wrote("none", e.lines, was_modifiable)

\* edit_buffer[line_num - 1] read in prepend (line 114) and append (line 137)
ExistingLine(lines, n) == IF n \in 1..Len(lines) THEN Some(lines[n]) ELSE None

\* lines 101-122
prepend(lines, option, line_num, text) ==
    LET n == expand_line(line_num, Len(lines)) IN
    IF n = None THEN Wrote("BufferWriteException", lines, option)
    ELSE IF ExistingLine(lines, n[1]) = None
         THEN Wrote("IndexError", lines, option)
    ELSE IF text.kind = "str"
         THEN do_write_buffer(lines, option, n[1], n[1],
                  StrText(text.v[1] \o ExistingLine(lines, n[1])[1]),
                  "_edit_function_replace_lines")
    ELSE do_write_buffer(lines, option, n[1], n[1], text,
                         "_edit_function_prepend_lines")

\* lines 124-145
append(lines, option, line_num, text) ==
    LET n == expand_line(line_num, Len(lines)) IN
    IF n = None THEN Wrote("BufferWriteException", lines, option)
    ELSE IF ExistingLine(lines, n[1]) = None
         THEN Wrote("IndexError", lines, option)
    ELSE IF text.kind = "str"
         THEN do_write_buffer(lines, option, n[1], n[1],
                  StrText(ExistingLine(lines, n[1])[1] \o text.v[1]),
                  "_edit_function_replace_lines")
    ELSE do_write_buffer(lines, option, n[1], n[1], text,
                         "_edit_function_append_lines")

\* lines 147-164
replace(lines, option, line_from, line_to, text) ==
    LET f == expand_line(line_from, Len(lines))
        t == expand_line(line_to, Len(lines))
    IN  IF f = None \/ t = None
        THEN Wrote("BufferWriteException", lines, option)
        ELSE do_write_buffer(lines, option, f[1], t[1] + 1, text,
                             "_edit_function_replace_lines")

\* the arguments of the calls: line numbers from 1, "$" and "$+1"
LineArgs ==
    {LineArg(FALSE, k) : k \in 1..(MaxLines + 1)}
        \cup {LineArg(TRUE, 0), LineArg(TRUE, 1)}

StrTexts == {StrText(<<"x">>), StrText(<<"x", NL>>)}

ListTexts == {ListText(<<<<"x">>>>), ListText(<<<<"x">>, << >>>>),
              ListText(<<<<NL>>>>)}

WriteCall(op, line_from, line_to, text) ==
    [op |-> op, line_from |-> line_from, line_to |-> line_to, text |-> text]

\* the buffer stays within the bounds of the model
Fits(lines) ==
    /\ Len(lines) <= MaxLines
    /\ \A i \in 1..Len(lines) : Len(lines[i]) <= MaxLineLen

OnlyBuffer ==
    UNCHANGED <<vars_decode, vars_harness, vars_perf, vars_read, vars_poll,
                vars_scenario, vars_track, vars_match, vars_expect, vars_pty,
                bl_buffers, bl_got>>

\* the call ended: what it left in the buffer and what it raised
WriteEnds(w, call) ==
    /\ Fits(w.lines)
    /\ buf_lines' = w.lines
    /\ modifiable' = w.modifiable
    /\ buf_raised' = w.raised
    /\ buf_call' = call
    /\ OnlyBuffer

BufferPrepend(line_num, text) ==
    /\ LineValue(line_num, Len(buf_lines)) >= 1
    /\ WriteEnds(prepend(buf_lines, modifiable, line_num, text),
                WriteCall("prepend", line_num, line_num, text))

BufferAppend(line_num, text) ==
    /\ LineValue(line_num, Len(buf_lines)) >= 1
    /\ WriteEnds(append(buf_lines, modifiable, line_num, text),
                WriteCall("append", line_num, line_num, text))

BufferReplace(line_from, line_to, text) ==
    /\ LineValue(line_from, Len(buf_lines)) >= 1
    /\ LineValue(line_to, Len(buf_lines)) >= 1
    /\ WriteEnds(replace(buf_lines, modifiable, line_from, line_to, text),
                WriteCall("replace", line_from, line_to, text))

\* a buffer of one empty line, modifiable or not as its commands set it
InitBuffer ==
    /\ InitHarness /\ NoStream /\ InitPerf /\ InitRead /\ InitPoll
    /\ InitScenario /\ InitTrack /\ NoMatch
    /\ buf_lines = <<<< >>>>
    /\ modifiable \in BOOLEAN
    /\ buf_call = [op |-> "none"]
    /\ buf_raised = "none"
    /\ bl_buffers = << >>
    /\ bl_got = << >>
    /\ NoExpect /\ NoPty

NextBuffer ==
    \/ \E l \in LineArgs, t \in StrTexts \cup ListTexts : BufferPrepend(l, t)
    \/ \E l \in LineArgs, t \in StrTexts \cup ListTexts : BufferAppend(l, t)
    \/ \E f \in LineArgs, t \in LineArgs, x \in ListTexts : BufferReplace(f, t, x)

SpecBuffer == InitBuffer /\ [][NextBuffer]_vars

\* the call of this step names a line beyond the end of the buffer
BeyondTheEnd(call, length) ==
    \/ LineValue(call.line_from, length) > length
    \/ LineValue(call.line_to, length) > length

\* C31: a write (prepend, append or replace) at a line number greater than
\* the length of the buffer raises BufferWriteException and leaves the
\* lines of the buffer as they were.
C31_WriteBeyondTheEndRaises ==
    [][BeyondTheEnd(buf_call', Len(buf_lines)) =>
           /\ buf_raised' = "BufferWriteException"
           /\ buf_lines' = buf_lines]_vars

C31_Witness ==
    /\ buf_call.op = "replace"
    /\ Len(buf_lines) = 2
    /\ LineValue(buf_call.line_from, Len(buf_lines)) = 1
    /\ LineValue(buf_call.line_to, Len(buf_lines)) = 3
    /\ buf_raised = "BufferWriteException"

\* C39: every write leaves the option 'modifiable' as it was before the
\* write, also when the edit function raises.
C39_ModifiableAsBefore ==
    [][modifiable' = modifiable]_vars

(***************************************************************************)
(* pythonx/buffers.py: BufferList.  A Buffer object is known by its place  *)
(* in _buffers, which is the order of construction.                        *)
(***************************************************************************)
MaxBuffers == 3     \* most calls of create_buffer

BufferNames == {"a", "b", "c"}

\* the names VIM has a buffer for, from the objects constructed so far
NamesOf(objects) == {objects[i].buffer_name : i \in 1..Len(objects)}

\* bufnr('%') after "silent edit name" (line 70): the number of the VIM
\* buffer of that name, a new number when the name is new; buffer 1 is the
\* buffer the user was in
BufNr(objects, name) ==
    IF name \in NamesOf(objects)
    THEN (CHOOSE o \in {objects[i] : i \in 1..Len(objects)} :
              o.buffer_name = name).buffer_number
    ELSE Cardinality(NamesOf(objects)) + 2

\* lines 56-78: Buffer(name, commands)
NewBuffer(objects, name) ==
    [buffer_name |-> name, buffer_number |-> BufNr(objects, name)]

\* lines 30-39
create_buffer(objects, name) == Append(objects, NewBuffer(objects, name))

\* the argument of get_buffer: a str or an int
StrKey(name) == [type |-> "str", name |-> name, number |-> 0]
IntKey(number) == [type |-> "int", name |-> "", number |-> number]

\* line 46-47: the test of one object against the argument
KeyMatches(object, key) ==
    \/ key.type = "str" /\ object.buffer_name = key.name
    \/ key.type = "int" /\ object.buffer_number = key.number

\* lines 41-50: the first object that matches, None when there is none
get_buffer(objects, key) ==
    IF \E i \in 1..Len(objects) : KeyMatches(objects[i], key)
    THEN Some(CHOOSE i \in 1..Len(objects) :
                  /\ KeyMatches(objects[i], key)
                  /\ \A j \in 1..(i - 1) : ~KeyMatches(objects[j], key))
    ELSE None

OnlyBufferList ==
    UNCHANGED <<vars_decode, vars_harness, vars_perf, vars_read, vars_poll,
                vars_scenario, vars_track, vars_match, vars_expect, vars_pty,
                buf_lines, modifiable, buf_call, buf_raised>>

CreateBuffer(name) ==
    /\ Len(bl_buffers) < MaxBuffers
    /\ bl_buffers' = create_buffer(bl_buffers, name)
    /\ UNCHANGED bl_got
    /\ OnlyBufferList

GetBuffer(key) ==
    /\ bl_got' = <<[key |-> key, object |-> get_buffer(bl_buffers, key)]>>
    /\ UNCHANGED bl_buffers
    /\ OnlyBufferList

NextBufferList ==
    \/ \E name \in BufferNames : CreateBuffer(name)
    \/ \E name \in BufferNames : GetBuffer(StrKey(name))
    \/ \E number \in 2..(MaxBuffers + 1) : GetBuffer(IntKey(number))

SpecBufferList == Init /\ [][NextBufferList]_vars

\* C32: after any sequence of create_buffer calls no two objects of the
\* list have the same name, and get_buffer(name) returns the object the
\* first create_buffer(name) returned, None when no buffer of that name was
\* created.
C32_OneBufferPerName ==
    /\ \A i, j \in 1..Len(bl_buffers) :
           bl_buffers[i].buffer_name = bl_buffers[j].buffer_name => i = j
    /\ \A g \in {bl_got[k] : k \in 1..Len(bl_got)} :
           g.key.type = "str" =>
               IF g.key.name \in NamesOf(bl_buffers)
               THEN /\ g.object # None
                    /\ bl_buffers[g.object[1]].buffer_name = g.key.name
                    /\ \A j \in 1..(g.object[1] - 1) :
                           bl_buffers[j].buffer_name # g.key.name
               ELSE g.object = None

(***************************************************************************)
(* integration/RunPadre.py: expect_from_padre.  A pattern is a sequence of *)
(* atoms that each match one character: a literal or ".", in a group or    *)
(* not.                                                                    *)
(***************************************************************************)
MaxOutput == 3      \* characters the server sends

Atom(ch, group) == [ch |-> ch, group |-> group]

AtomMatches(atom, c) == atom.ch = "." \/ atom.ch = c

\* re.compile(pattern).match(data): the pattern matches at the start of
\* data; None stands for the None that match returns
re_match(pattern, data) ==
    IF /\ Len(pattern) <= Len(data)
       /\ \A i \in 1..Len(pattern) : AtomMatches(pattern[i], data[i])
    THEN Some(SubSeq(data, 1, Len(pattern)))
    ELSE None

RECURSIVE GroupsOf(_, _)
\* res[1], res[2], ... until IndexError (RunPadre.py lines 54-61)
GroupsOf(pattern, data) ==
    IF pattern = << >> THEN << >>
    ELSE (IF Head(pattern).group THEN <<<<Head(data)>>>> ELSE << >>)
             \o GroupsOf(Tail(pattern), Tail(data))

Returned(ok, groups) == [kind |-> "return", ok |-> ok, groups |-> groups]

\* RunPadre.py lines 44-45: recv only when the buffer is empty
AfterRecv(buffer, socket) == IF buffer = << >> THEN socket ELSE buffer

\* RunPadre.py lines 50-62 on the buffer after line 45: what the call
\* leaves in _buffer, and how it ends.  Line 51 takes res[0] before line 52
\* tests res: on None it raises TypeError
expect_from_padre(pattern, data) ==
    LET res == re_match(pattern, data) IN
    IF res = None
    THEN [buffer |-> data, out |-> [kind |-> "TypeError"]]
    ELSE [buffer |-> SubSeq(data, Len(res[1]) + 1, Len(data)),
          out |-> Returned(TRUE, GroupsOf(pattern, data))]

Patterns ==
    {<<Atom("a", FALSE)>>, <<Atom("a", TRUE), Atom("b", FALSE)>>,
     <<Atom(".", TRUE), Atom(".", TRUE)>>, <<Atom("b", TRUE)>>}

OnlyExpect ==
    UNCHANGED <<vars_decode, vars_harness, vars_perf, vars_read, vars_poll,
                vars_scenario, vars_track, vars_match, vars_buf, vars_pty>>

\* the server writes to the connection
PadreSends(c) ==
    /\ ex_sent < MaxOutput
    /\ ex_socket' = Append(ex_socket, c)
    /\ ex_sent' = ex_sent + 1
    /\ UNCHANGED <<ex_buffer, ex_out>>
    /\ OnlyExpect

\* RunPadre.py lines 41-62; recv blocks while the socket has no data
ExpectFromPadre(pattern) ==
    /\ ex_buffer # << >> \/ ex_socket # << >>
    /\ LET r == expect_from_padre(pattern, AfterRecv(ex_buffer, ex_socket)) IN
       /\ ex_buffer' = r.buffer
       /\ ex_out' = r.out
    /\ ex_socket' = IF ex_buffer = << >> THEN << >> ELSE ex_socket
    /\ UNCHANGED ex_sent
    /\ OnlyExpect

NextExpect ==
    \/ \E c \in {"a", "b"} : PadreSends(c)
    \/ \E pattern \in Patterns : ExpectFromPadre(pattern)

SpecExpect == Init /\ [][NextExpect]_vars

\* C36: when the pattern does not match at the start of the buffered data
\* expect_from_padre returns [False] and leaves the buffer as it is; when it
\* matches, the call returns [True, group 1, group 2, ...] and removes the
\* matched prefix from the buffer; the socket is read only when the buffer
\* is empty.
C36_ExpectReturnsFalseOrTheGroups ==
    [][\A pattern \in Patterns :
           ExpectFromPadre(pattern) =>
               LET data == AfterRecv(ex_buffer, ex_socket) IN
               /\ re_match(pattern, data) = None =>
                      /\ ex_out' = Returned(FALSE, << >>)
                      /\ ex_buffer' = data
               /\ re_match(pattern, data) # None =>
                      /\ ex_out' = Returned(TRUE, GroupsOf(pattern, data))
                      /\ ex_buffer' = SubSeq(data, Len(pattern) + 1, Len(data))
               /\ ex_buffer # << >> => ex_socket' = ex_socket]_vars

(***************************************************************************)
(* padre/ptywrapper.py: spawn, the relay loop _copy and the handler        *)
(* receiveSignal, which runs between two steps of the main thread          *)
(***************************************************************************)
MaxRelay == 2       \* blocks of data relayed by _copy

ChildPid == 7       \* the pid pty.fork returns in the parent

\* two of the signals of ptywrapper.py lines 78-92: SIGINT and SIGTERM
Signals == {2, 15}

Kill(sig, pid, child) == [sig |-> sig, pid |-> pid, child |-> child]

OnlyPty ==
    UNCHANGED <<vars_decode, vars_harness, vars_perf, vars_read, vars_poll,
                vars_scenario, vars_track, vars_match, vars_buf, vars_expect>>

\* ptywrapper.py line 72, in the parent
Fork ==
    /\ pw_pc = "start"
    /\ PID' = ChildPid
    /\ pw_child' = "running"
    /\ pw_pc' = "forked"
    /\ UNCHANGED <<TTY_MODE, pw_fds, pw_term, pw_stdin, pw_relayed, pw_kills,
                   pw_exit>>
    /\ OnlyPty

\* ptywrapper.py lines 78-92
InstallHandlers ==
    /\ pw_pc = "forked"
    /\ pw_pc' = "installed"
    /\ UNCHANGED <<PID, TTY_MODE, pw_fds, pw_term, pw_child, pw_stdin,
                   pw_relayed, pw_kills, pw_exit>>
    /\ OnlyPty

\* ptywrapper.py lines 93-95 and 97-98: tcgetattr and setraw, or tty.error
\* when standard input is not a terminal; then line 101 and line 50
SetRaw ==
    /\ pw_pc = "installed"
    /\ \/ pw_pc' = "raw" /\ pw_term' = "raw" /\ UNCHANGED pw_fds
       \/ /\ pw_pc' = "copy"
          /\ pw_fds' = {"master_fd", "STDIN_FILENO"}
          /\ UNCHANGED pw_term
    /\ UNCHANGED <<PID, TTY_MODE, pw_child, pw_stdin, pw_relayed, pw_kills,
                   pw_exit>>
    /\ OnlyPty

\* ptywrapper.py line 96, then line 101 and line 50
SaveMode ==
    /\ pw_pc = "raw"
    /\ TTY_MODE' = Some("cooked")
    /\ pw_fds' = {"master_fd", "STDIN_FILENO"}
    /\ pw_pc' = "copy"
    /\ UNCHANGED <<PID, pw_term, pw_child, pw_stdin, pw_relayed, pw_kills,
                   pw_exit>>
    /\ OnlyPty

\* ptywrapper.py lines 53-58: the child wrote, the data goes to stdout
RelayOutput ==
    /\ pw_pc = "copy"
    /\ "master_fd" \in pw_fds
    /\ pw_child = "running"
    /\ pw_relayed < MaxRelay
    /\ pw_relayed' = pw_relayed + 1
    /\ UNCHANGED <<pw_pc, PID, TTY_MODE, pw_fds, pw_term, pw_child, pw_stdin,
                   pw_kills, pw_exit>>
    /\ OnlyPty

\* ptywrapper.py lines 59-64: standard input has data, it goes to the
\* master; the write raises OSError or not, as the system has it, when the
\* child has closed the slave
RelayInput ==
    /\ pw_pc = "copy"
    /\ "STDIN_FILENO" \in pw_fds
    /\ pw_stdin = "open"
    /\ pw_relayed < MaxRelay
    /\ \/ pw_relayed' = pw_relayed + 1 /\ UNCHANGED pw_pc
       \/ pw_child # "running" /\ pw_pc' = "restore" /\ UNCHANGED pw_relayed
    /\ UNCHANGED <<PID, TTY_MODE, pw_fds, pw_term, pw_child, pw_stdin,
                   pw_kills, pw_exit>>
    /\ OnlyPty

\* the child ends and its side of the pty is closed
ChildExits ==
    /\ pw_child = "running"
    /\ pw_child' = "exited"
    /\ UNCHANGED <<pw_pc, PID, TTY_MODE, pw_fds, pw_term, pw_stdin,
                   pw_relayed, pw_kills, pw_exit>>
    /\ OnlyPty

\* standard input ends
StdinEnds ==
    /\ pw_stdin = "open"
    /\ pw_pc # "exited"
    /\ pw_stdin' = "eof"
    /\ UNCHANGED <<pw_pc, PID, TTY_MODE, pw_fds, pw_term, pw_child,
                   pw_relayed, pw_kills, pw_exit>>
    /\ OnlyPty

\* ptywrapper.py lines 53-56 at the end of file of the master: the read
\* returns no data and the master leaves fds (line 56), or the read raises
\* OSError and spawn catches it (lines 102-103), as the system has it
MasterEOF ==
    /\ pw_pc = "copy"
    /\ "master_fd" \in pw_fds
    /\ pw_child = "exited"
    /\ \/ pw_fds' = pw_fds \ {"master_fd"} /\ UNCHANGED pw_pc
       \/ pw_pc' = "restore" /\ UNCHANGED pw_fds
    /\ UNCHANGED <<PID, TTY_MODE, pw_term, pw_child, pw_stdin, pw_relayed,
                   pw_kills, pw_exit>>
    /\ OnlyPty

\* ptywrapper.py lines 59-62 at the end of file of standard input
StdinEOF ==
    /\ pw_pc = "copy"
    /\ "STDIN_FILENO" \in pw_fds
    /\ pw_stdin = "eof"
    /\ pw_fds' = pw_fds \ {"STDIN_FILENO"}
    /\ UNCHANGED <<pw_pc, PID, TTY_MODE, pw_term, pw_child, pw_stdin,
                   pw_relayed, pw_kills, pw_exit>>
    /\ OnlyPty

\* ptywrapper.py lines 105-108
RestoreAndClose ==
    /\ pw_pc = "restore"
    /\ pw_term' = IF TTY_MODE # None THEN TTY_MODE[1] ELSE pw_term
    /\ pw_pc' = "waitpid"
    /\ UNCHANGED <<PID, TTY_MODE, pw_fds, pw_child, pw_stdin, pw_relayed,
                   pw_kills, pw_exit>>
    /\ OnlyPty

\* ptywrapper.py line 109: waitpid returns once the child has ended
WaitPid ==
    /\ pw_pc = "waitpid"
    /\ pw_child = "exited"
    /\ pw_child' = "reaped"
    /\ pw_pc' = "returned"
    /\ UNCHANGED <<PID, TTY_MODE, pw_fds, pw_term, pw_stdin, pw_relayed,
                   pw_kills, pw_exit>>
    /\ OnlyPty

\* ptywrapper.py line 112 returned: the script ends
ScriptEnds ==
    /\ pw_pc = "returned"
    /\ pw_pc' = "exited"
    /\ pw_exit' = Some(0)
    /\ UNCHANGED <<PID, TTY_MODE, pw_fds, pw_term, pw_child, pw_stdin,
                   pw_relayed, pw_kills>>
    /\ OnlyPty

\* ptywrapper.py lines 20-31, called at any point after line 92.  os.kill
\* on the pid of a child that waitpid has reaped raises ProcessLookupError,
\* or reaches the process that has got the pid since, as the system has it
receiveSignal(signalNumber) ==
    /\ pw_pc \notin {"start", "forked", "exited"}
    /\ pw_pc' = "exited"
    /\ IF PID = -1
       THEN /\ pw_term' = (IF TTY_MODE # None THEN TTY_MODE[1] ELSE pw_term)
            /\ pw_exit' = Some(0)
            /\ UNCHANGED pw_kills
       ELSE IF pw_child # "reaped"
       THEN /\ pw_kills' = Append(pw_kills, Kill(signalNumber, PID, TRUE))
            /\ pw_term' = (IF TTY_MODE # None THEN TTY_MODE[1] ELSE pw_term)
            /\ pw_exit' = Some(0)
       ELSE \/ /\ pw_exit' = Some(1)
               /\ UNCHANGED <<pw_kills, pw_term>>
            \/ /\ pw_kills' = Append(pw_kills, Kill(signalNumber, PID, FALSE))
               /\ pw_term' = (IF TTY_MODE # None THEN TTY_MODE[1] ELSE pw_term)
               /\ pw_exit' = Some(0)
    /\ UNCHANGED <<PID, TTY_MODE, pw_fds, pw_child, pw_stdin, pw_relayed>>
    /\ OnlyPty

NextPty ==
    \/ Fork
    \/ InstallHandlers
    \/ SetRaw
    \/ SaveMode
    \/ RelayOutput
    \/ RelayInput
    \/ ChildExits
    \/ StdinEnds
    \/ MasterEOF
    \/ StdinEOF
    \/ RestoreAndClose
    \/ WaitPid
    \/ ScriptEnds
    \/ \E signalNumber \in Signals : receiveSignal(signalNumber)

SpecPty == Init /\ [][NextPty]_vars

\* C37: once the master of the child's pty has reached its end of file,
\* shown as an empty read or as an OS error, with standard input open or
\* not, the relay loop is over: the wrapper never waits in the loop on an
\* empty descriptor set or on standard input alone.
C37_RelayLoopEndsAtMasterEOF ==
    pw_pc = "copy" => "master_fd" \in pw_fds

\* C38: once the handlers are installed, a handled signal is sent on with
\* the same number to the child process exactly once, the saved terminal
\* mode is restored when one was saved, and the wrapper exits with status
\* 0; no process is signalled while no child pid is recorded, and no data
\* is relayed after the signal was handled.
C38_SignalForwardedOnceThenExit ==
    [][/\ \A signalNumber \in Signals :
              receiveSignal(signalNumber) =>
                  /\ PID # -1
                  /\ pw_kills' = Append(pw_kills, Kill(signalNumber, PID, TRUE))
                  /\ TTY_MODE # None => pw_term' = TTY_MODE[1]
                  /\ pw_exit' = Some(0)
       /\ pw_kills # << >> => pw_relayed' = pw_relayed]_vars

====
